---- MODULE Spec2Model ----
(***************************************************************************)
(* A model of godat, a self-describing binary serializer for Go.           *)
(*                                                                         *)
(* Go values are modelled by records that carry their reflect.Kind in the  *)
(* field k.  64-bit integers and IEEE-754 floats exceed the integers TLC   *)
(* can compute with, so a machine word is a sequence of bits, most         *)
(* significant bit first; a byte of the stream is a number 0..255.         *)
(***************************************************************************)
EXTENDS Integers, Sequences, FiniteSets, TLC

\* ------------------------------------------------------------------------
\* godat.go: the tag scheme
\* ------------------------------------------------------------------------

\* t8 byte = 0x1A * iota, and the three constants that repeat it
t8 == 26 * 0
t16 == 26 * 1
t32 == 26 * 2
\* a step of 0x1B instead of 0x1A
t64Step27 == 27 * 3
t64 == 26 * 3

\* the ASCII codes of the base letters
chZ == 90
chT == 84
chF == 70
chI == 73
chU == 85
chD == 68
chS == 83
chA == 65
chO == 79
chB == 66

tNil == chZ + t8
tTrue == chT + t8
tFalse == chF + t8
tInt8 == chI + t8
tInt16 == chI + t16
tInt32 == chI + t32
tInt64 == chI + t64
tUint8 == chU + t8
tUint16 == chU + t16
tUint32 == chU + t32
tUint64 == chU + t64
tFloat32 == chD + t32
tFloat64 == chD + t64
tString8 == chS + t8
tString16 == chS + t16
tString32 == chS + t32
tArray8 == chA + t8
tArray16 == chA + t16
tArray32 == chA + t32
tObject8 == chO + t8
tObject16 == chO + t16
tObject32 == chO + t32
tBinary8 == chB + t8
tBinary16 == chB + t16
tBinary32 == chB + t32

\* the 25 assigned tags, in the order of the const block
TagList ==
  << tNil, tTrue, tFalse, tInt8, tInt16, tInt32, tInt64,
     tUint8, tUint16, tUint32, tUint64, tFloat32, tFloat64,
     tString8, tString16, tString32, tArray8, tArray16, tArray32,
     tObject8, tObject16, tObject32, tBinary8, tBinary16, tBinary32 >>

\* ------------------------------------------------------------------------
\* machine words
\* ------------------------------------------------------------------------

Min(a, b) == IF a <= b THEN a ELSE b
Max(a, b) == IF a >= b THEN a ELSE b

Fill(n, b) == [i \in 1..n |-> b]
Low(w, n) == SubSeq(w, Len(w) - n + 1, Len(w))
High(w, n) == SubSeq(w, 1, n)
Not(w) == [i \in 1..Len(w) |-> 1 - w[i]]

\* the number a bit string of at most 31 bits denotes
RECURSIVE BitsNat(_)
BitsNat(w) == IF w = <<>> THEN 0 ELSE 2 * BitsNat(SubSeq(w, 1, Len(w) - 1)) + w[Len(w)]

\* the n-bit string of a number 0 <= x < 2^31
NatBits(x, n) ==
  [i \in 1..n |-> IF n - i >= 31 THEN 0 ELSE (x \div (2 ^ (n - i))) % 2]

\* zero extension and sign extension to n bits
ZeroExt(w, n) == Fill(n - Len(w), 0) \o w
SignExt(w, n) == Fill(n - Len(w), w[1]) \o w

\* the int64 (two's complement) of a number -2^31 <= x < 2^31
IntWord(x) == IF x >= 0 THEN NatBits(x, 64) ELSE Not(NatBits(-(x + 1), 64))

\* unsigned and signed order on words of the same length
ULt(a, b) == \E i \in 1..Len(a) : a[i] < b[i] /\ \A j \in 1..(i - 1) : a[j] = b[j]
ULe(a, b) == a = b \/ ULt(a, b)
SLt(a, b) == ULt(<<1 - a[1]>> \o Tail(a), <<1 - b[1]>> \o Tail(b))
SLe(a, b) == a = b \/ SLt(a, b)

\* w + 1 modulo 2^Len(w)
RECURSIVE Inc(_)
Inc(w) ==
  IF w = <<>> THEN <<>>
  ELSE IF w[Len(w)] = 0 THEN SubSeq(w, 1, Len(w) - 1) \o <<1>>
  ELSE Inc(SubSeq(w, 1, Len(w) - 1)) \o <<0>>

\* big-endian bytes of a word whose length is a multiple of 8, and back
WordBytes(w) == [i \in 1..(Len(w) \div 8) |-> BitsNat(SubSeq(w, 8 * i - 7, 8 * i))]
RECURSIVE BytesWord(_)
BytesWord(bs) == IF bs = <<>> THEN <<>> ELSE NatBits(bs[1], 8) \o BytesWord(Tail(bs))

\* ------------------------------------------------------------------------
\* Go values (reflect.Value) and their types (reflect.Type)
\* ------------------------------------------------------------------------

\* the error values: nil, the two errors of the io package, and the errors
\* of the codec
ErrNil == "nil"
ErrEOF == "io.EOF"
ErrUnexpectedEOF == "io.ErrUnexpectedEOF"
ErrEncoder == "EncoderError"
ErrDecoder == "DecoderError"
ErrDecoderType == "DecoderTypeError"
\* the errors the hooks of TestInputBrokenMarshaler return
ErrMarshalHook == "marshal error"
ErrUnmarshalHook == "unmarshal error"

BoolT == [k |-> "bool"]
IntT(bits) == [k |-> "int", bits |-> bits]
UintT(bits) == [k |-> "uint", bits |-> bits]
FloatT(bits) == [k |-> "float", bits |-> bits]
StringT == [k |-> "string"]
SliceT(e) == [k |-> "slice", elem |-> e]
ArrayT(e, n) == [k |-> "array", elem |-> e, len |-> n]
MapT(kt, e) == [k |-> "map", key |-> kt, elem |-> e]
\* fs: a sequence of [name, exported, t]; name is the bytes of the field name
\* hooks: the MarshalBinary and UnmarshalBinary methods of the type: "none",
\* "text" for those of TestInputMarshaler, "broken" for those of
\* TestInputBrokenMarshaler
HookedT(hooks, fs) == [k |-> "struct", fields |-> fs, hooks |-> hooks]
StructT(fs) == HookedT("none", fs)
PtrT(e) == [k |-> "ptr", elem |-> e]
IfaceT(m) == [k |-> "iface", methods |-> m]
ChanT == [k |-> "chan"]
ByteSliceT == SliceT(UintT(8))

\* n of an integer is v.Int() / v.Uint(), f of a float is the bits of
\* v.Float(): the value widened to 64 bits
BoolV(b) == [k |-> "bool", b |-> b]
IntV(bits, n) == [k |-> "int", bits |-> bits, n |-> n]
UintV(bits, n) == [k |-> "uint", bits |-> bits, n |-> n]
FloatV(bits, f) == [k |-> "float", bits |-> bits, f |-> f]
StringV(s) == [k |-> "string", s |-> s]
\* a slice whose capacity is its length; a nil slice is the empty one
SliceV(e, items) == [k |-> "slice", elem |-> e, items |-> items]
ArrayV(e, items) == [k |-> "array", elem |-> e, items |-> items]
\* kv: the set of <<key, value>> pairs; a nil map is the empty one
MapV(kt, e, kv) == [k |-> "map", key |-> kt, elem |-> e, kv |-> kv]
\* fs: a sequence of [name, exported, v]
HookedV(hooks, fs) == [k |-> "struct", fields |-> fs, hooks |-> hooks]
StructV(fs) == HookedV("none", fs)
\* p: <<>> for the nil pointer, <<v>> for a pointer to v
PtrV(e, p) == [k |-> "ptr", elem |-> e, p |-> p]
\* an interface of m methods; p: <<>> for nil, <<v>> for the dynamic value v
IfaceV(m, p) == [k |-> "iface", methods |-> m, p |-> p]
\* a channel: one of the kinds the codec has no representation for
ChanV == [k |-> "chan"]

RECURSIVE TypeOf(_)
TypeOf(v) ==
  CASE v.k = "bool" -> BoolT
    [] v.k = "int" -> IntT(v.bits)
    [] v.k = "uint" -> UintT(v.bits)
    [] v.k = "float" -> FloatT(v.bits)
    [] v.k = "string" -> StringT
    [] v.k = "slice" -> SliceT(v.elem)
    [] v.k = "array" -> ArrayT(v.elem, Len(v.items))
    [] v.k = "map" -> MapT(v.key, v.elem)
    [] v.k = "struct" ->
         HookedT(v.hooks,
                 [i \in 1..Len(v.fields) |->
                    [name |-> v.fields[i].name, exported |-> v.fields[i].exported,
                     t |-> TypeOf(v.fields[i].v)]])
    [] v.k = "ptr" -> PtrT(v.elem)
    [] v.k = "iface" -> IfaceT(v.methods)
    [] v.k = "chan" -> ChanT

\* reflect.Zero
RECURSIVE Zero(_)
Zero(t) ==
  CASE t.k = "bool" -> BoolV(FALSE)
    [] t.k = "int" -> IntV(t.bits, Fill(64, 0))
    [] t.k = "uint" -> UintV(t.bits, Fill(64, 0))
    [] t.k = "float" -> FloatV(t.bits, Fill(64, 0))
    [] t.k = "string" -> StringV(<<>>)
    [] t.k = "slice" -> SliceV(t.elem, <<>>)
    [] t.k = "array" -> ArrayV(t.elem, [i \in 1..t.len |-> Zero(t.elem)])
    [] t.k = "map" -> MapV(t.key, t.elem, {})
    [] t.k = "struct" ->
         HookedV(t.hooks,
                 [i \in 1..Len(t.fields) |->
                    [name |-> t.fields[i].name, exported |-> t.fields[i].exported,
                     v |-> Zero(t.fields[i].t)]])
    [] t.k = "ptr" -> PtrV(t.elem, <<>>)
    [] t.k = "iface" -> IfaceV(t.methods, <<>>)
    [] t.k = "chan" -> ChanV

\* ------------------------------------------------------------------------
\* IEEE-754: a float64 is its 64 bits (sign, 11 exponent bits, 52 mantissa
\* bits), a float32 its 32 bits (sign, 8 exponent bits, 23 mantissa bits)
\* ------------------------------------------------------------------------

FExp(f) == BitsNat(SubSeq(f, 2, 12))
FMan(f) == SubSeq(f, 13, 64)
IsZeroBits(w) == \A i \in 1..Len(w) : w[i] = 0

\* math.IsInf(f, 0), math.IsNaN, math.Abs
IsInf(f) == FExp(f) = 2047 /\ IsZeroBits(FMan(f))
IsNaN(f) == FExp(f) = 2047 /\ ~IsZeroBits(FMan(f))
Abs(f) == <<0>> \o Tail(f)
FIsZero(f) == IsZeroBits(Tail(f))

\* x < y and x <= y on float64 (false when either is a NaN)
FLt(x, y) ==
  /\ ~IsNaN(x) /\ ~IsNaN(y)
  /\ ~(FIsZero(x) /\ FIsZero(y))
  /\ \/ x[1] = 1 /\ y[1] = 0
     \/ x[1] = 0 /\ y[1] = 0 /\ ULt(x, y)
     \/ x[1] = 1 /\ y[1] = 1 /\ ULt(y, x)
FLe(x, y) == ~IsNaN(x) /\ ~IsNaN(y) /\ (FLt(x, y) \/ x = y \/ (FIsZero(x) /\ FIsZero(y)))

\* the float64 of sign s, biased exponent e and mantissa m
MkFloat(s, e, m) == <<s>> \o NatBits(e, 11) \o m

\* math.SmallestNonzeroFloat32 = 2^-149, math.MaxFloat32 = (2 - 2^-23) * 2^127
\* and math.MaxFloat64, as float64
SmallestNonzeroFloat32 == MkFloat(0, 874, Fill(52, 0))
MaxFloat32 == MkFloat(0, 1150, Fill(23, 1) \o Fill(29, 0))
MaxFloat64 == MkFloat(0, 2046, Fill(52, 1))

\* round to nearest, ties to even: kept is the retained bits, rest the
\* dropped ones; a carry runs into the exponent bits that head kept
RoundEven(kept, rest) ==
  IF /\ rest # <<>>
     /\ rest[1] = 1
     /\ (~IsZeroBits(Tail(rest)) \/ kept[Len(kept)] = 1)
  THEN Inc(kept) ELSE kept

\* the conversion float32(f) of a float64
Float32Of(f) ==
  LET s == f[1]
      e == FExp(f)
      m == FMan(f)
      E == e - 1023
      sig == <<1>> \o m
      keep == 24 - ((-126) - E)
  IN  IF e = 2047
        THEN <<s>> \o Fill(8, 1)
               \o (IF IsZeroBits(m) THEN Fill(23, 0) ELSE <<1>> \o SubSeq(m, 2, 23))
      ELSE IF e = 0 THEN <<s>> \o Fill(31, 0)
      ELSE IF E > 127 THEN <<s>> \o Fill(8, 1) \o Fill(23, 0)
      ELSE IF E >= -126
        THEN <<s>> \o RoundEven(NatBits(E + 127, 8) \o High(m, 23), Low(m, 29))
      ELSE IF keep >= 0
        THEN <<s>> \o RoundEven(ZeroExt(High(sig, keep), 31), SubSeq(sig, keep + 1, 53))
      ELSE <<s>> \o Fill(31, 0)

\* the index of the first 1 of a word that is not zero
LeadingOne(w) == CHOOSE i \in 1..Len(w) : w[i] = 1 /\ \A j \in 1..(i - 1) : w[j] = 0

\* the conversion float64(g) of a float32 (exact)
Float64Of(g) ==
  LET s == g[1]
      e == BitsNat(SubSeq(g, 2, 9))
      m == SubSeq(g, 10, 32)
  IN  IF e = 255 THEN <<s>> \o Fill(11, 1) \o m \o Fill(29, 0)
      ELSE IF e = 0 /\ IsZeroBits(m) THEN <<s>> \o Fill(63, 0)
      ELSE IF e = 0
        THEN LET p == LeadingOne(m)
             IN  MkFloat(s, 897 - p, SubSeq(m, p + 1, 23) \o Fill(29 + p, 0))
      ELSE MkFloat(s, e + 896, m \o Fill(29, 0))

\* the float64 nearest to (-1)^s * mag, mag an unsigned 64-bit magnitude
MagToFloat(s, mag) ==
  IF IsZeroBits(mag) THEN Fill(64, 0)
  ELSE LET p == LeadingOne(mag)
           rest == SubSeq(mag, p + 1, 64)
           ex == NatBits(1023 + 64 - p, 11)
       IN  IF Len(rest) <= 52
             THEN <<s>> \o ex \o rest \o Fill(52 - Len(rest), 0)
           ELSE <<s>> \o RoundEven(ex \o High(rest, 52), SubSeq(rest, 53, Len(rest)))

Neg(w) == Inc(Not(w))

\* the conversions float64(n) of an int64 and of a uint64
IntToFloat(n) == IF n[1] = 1 THEN MagToFloat(1, Neg(n)) ELSE MagToFloat(0, n)
UintToFloat(n) == MagToFloat(0, n)

MinInt64 == <<1>> \o Fill(63, 0)
MaxInt64 == <<0>> \o Fill(63, 1)
MaxUint64 == Fill(64, 1)

\* the magnitude of a finite float64 truncated toward zero, when below 2^64
TruncMag(f) ==
  LET E == FExp(f) - 1023
      sig == <<1>> \o FMan(f)
  IN  IF FExp(f) = 0 \/ E < 0 THEN Fill(64, 0)
      ELSE IF E <= 52 THEN ZeroExt(High(sig, E + 1), 64)
      ELSE ZeroExt(sig \o Fill(E - 52, 0), 64)

\* a float64 whose truncation is an int64, and one whose truncation is a uint64
FitsInt64(f) == FExp(f) < 1023 + 63 \/ f = MkFloat(1, 1023 + 63, Fill(52, 0))
FitsUint64(f) ==
  \/ FExp(f) < 1023
  \/ f[1] = 0 /\ FExp(f) < 1023 + 64

\* The conversions int64(f) and uint64(f) of a float64.  Go leaves the result
\* open when the truncated value is out of range; impl names what the build
\* does then: "amd64" yields the integer indefinite value (and converts to
\* uint64 through the signed conversion), "arm64" saturates.
FloatToInt(impl, f) ==
  IF FitsInt64(f) THEN (IF f[1] = 1 THEN Neg(TruncMag(f)) ELSE TruncMag(f))
  ELSE IF impl = "amd64" THEN MinInt64
  ELSE IF IsNaN(f) THEN Fill(64, 0)
  ELSE IF f[1] = 1 THEN MinInt64 ELSE MaxInt64

FloatToUint(impl, f) ==
  IF FitsUint64(f) THEN (IF f[1] = 1 THEN Fill(64, 0) ELSE TruncMag(f))
  ELSE IF impl = "amd64"
    THEN (IF f[1] = 1 /\ ~IsNaN(f) THEN FloatToInt(impl, f) ELSE MinInt64)
  ELSE IF IsNaN(f) \/ f[1] = 1 THEN Fill(64, 0) ELSE MaxUint64

\* ------------------------------------------------------------------------
\* the Encoder
\* ------------------------------------------------------------------------

ErrPanic == "panic"

\* the outcome of writing to the sink: the bytes written and the error
Ok(bs) == [out |-> bs, err |-> ErrNil]
Failed(bs, e) == [out |-> bs, err |-> e]

\* Encoder.write to a bytes.Buffer: the tag, then every part in big-endian
write(t, parts) == <<t>> \o parts

encodeNil == write(tNil, <<>>)

encodeBool(v) == IF v THEN write(tTrue, <<>>) ELSE write(tFalse, <<>>)

\* encodeInt with the unsigned bound 255 on the first tier
encodeIntTo255(v) ==
  IF SLe(IntWord(-128), v) /\ SLe(v, IntWord(255))
    THEN write(tInt8, WordBytes(Low(v, 8)))
  ELSE IF SLe(IntWord(-32768), v) /\ SLe(v, IntWord(32767))
    THEN write(tInt16, WordBytes(Low(v, 16)))
  ELSE IF SLe(IntWord(-2147483647 - 1), v) /\ SLe(v, IntWord(2147483647))
    THEN write(tInt32, WordBytes(Low(v, 32)))
  ELSE write(tInt64, WordBytes(v))

encodeInt(v) ==
  IF SLe(IntWord(-128), v) /\ SLe(v, IntWord(127))
    THEN write(tInt8, WordBytes(Low(v, 8)))
  ELSE IF SLe(IntWord(-32768), v) /\ SLe(v, IntWord(32767))
    THEN write(tInt16, WordBytes(Low(v, 16)))
  ELSE IF SLe(IntWord(-2147483647 - 1), v) /\ SLe(v, IntWord(2147483647))
    THEN write(tInt32, WordBytes(Low(v, 32)))
  ELSE write(tInt64, WordBytes(v))

encodeUint(v) ==
  IF ULe(v, IntWord(255))
    THEN write(tUint8, WordBytes(Low(v, 8)))
  ELSE IF ULe(v, IntWord(65535))
    THEN write(tUint16, WordBytes(Low(v, 16)))
  ELSE IF ULe(v, ZeroExt(Fill(32, 1), 64))
    THEN write(tUint32, WordBytes(Low(v, 32)))
  ELSE write(tUint64, WordBytes(v))

\* encodeFloatFromZero: an encodeFloat whose 4-byte tier starts at zero
encodeFloatFromZero(v) ==
  IF IsInf(v) \/ IsNaN(v) THEN Failed(<<>>, ErrEncoder)
  ELSE IF FLe(Abs(v), MaxFloat32)
    THEN Ok(write(tFloat32, WordBytes(Float32Of(v))))
  ELSE Ok(write(tFloat64, WordBytes(v)))

encodeFloat(v) ==
  IF IsInf(v) \/ IsNaN(v) THEN Failed(<<>>, ErrEncoder)
  ELSE IF FLe(SmallestNonzeroFloat32, Abs(v)) /\ FLe(Abs(v), MaxFloat32)
    THEN Ok(write(tFloat32, WordBytes(Float32Of(v))))
  ELSE Ok(write(tFloat64, WordBytes(v)))

\* the length conversions uint8(n), uint16(n), uint32(n), big-endian
LenBytes(n, bits) == WordBytes(Low(NatBits(n, 64), bits))

encodeString(v) ==
  LET n == Len(v)
  IN  IF n <= 255 THEN write(tString8, LenBytes(n, 8) \o v)
      ELSE IF n <= 65535 THEN write(tString16, LenBytes(n, 16) \o v)
      ELSE write(tString32, LenBytes(n, 32) \o v)

encodeBinary(v) ==
  LET n == Len(v)
  IN  IF n <= 255 THEN write(tBinary8, LenBytes(n, 8) \o v)
      ELSE IF n <= 65535 THEN write(tBinary16, LenBytes(n, 16) \o v)
      ELSE write(tBinary32, LenBytes(n, 32) \o v)

\* writeArrayType with < for <= at the end of the first tier
writeArrayTypeBelow255(n) ==
  IF n < 255 THEN write(tArray8, LenBytes(n, 8))
  ELSE IF n <= 65535 THEN write(tArray16, LenBytes(n, 16))
  ELSE write(tArray32, LenBytes(n, 32))

writeArrayType(n) ==
  IF n <= 255 THEN write(tArray8, LenBytes(n, 8))
  ELSE IF n <= 65535 THEN write(tArray16, LenBytes(n, 16))
  ELSE write(tArray32, LenBytes(n, 32))

writeObjectType(n) ==
  IF n <= 255 THEN write(tObject8, LenBytes(n, 8))
  ELSE IF n <= 65535 THEN write(tObject16, LenBytes(n, 16))
  ELSE write(tObject32, LenBytes(n, 32))

RECURSIVE skipValue(_)
\* skipValueDeep: a skipValue that also skips a pointer or an interface whose
\* target is skipped, and never a bool
skipValueDeep(v) ==
  CASE v.k \in {"ptr", "iface"} -> v.p = <<>> \/ skipValue(v.p[1])
    [] v.k = "bool" -> FALSE
    [] v.k \in {"array", "slice"} -> Len(v.items) = 0
    [] v.k = "map" -> v.kv = {}
    [] v.k = "string" -> Len(v.s) = 0
    [] v.k \in {"int", "uint"} -> v.n = Fill(64, 0)
    [] v.k = "float" -> FIsZero(v.f)
    [] v.k = "struct" -> \A i \in 1..Len(v.fields) : skipValue(v.fields[i].v)
    [] OTHER -> TRUE

skipValue(v) ==
  CASE v.k = "array" -> \A i \in 1..Len(v.items) : skipValue(v.items[i])
    [] v.k = "map" -> v.kv = {}
    [] v.k = "slice" -> Len(v.items) = 0
    [] v.k = "string" -> Len(v.s) = 0
    [] v.k = "bool" -> ~v.b
    [] v.k = "int" -> v.n = Fill(64, 0)
    [] v.k = "uint" -> v.n = Fill(64, 0)
    [] v.k = "float" -> FIsZero(v.f)
    [] v.k \in {"ptr", "iface"} -> v.p = <<>>
    [] v.k = "struct" -> \A i \in 1..Len(v.fields) : skipValue(v.fields[i].v)
    [] OTHER -> TRUE

\* the orders in which a range over a Go map can visit the elements of S
Perms(S) ==
  {p \in [1..Cardinality(S) -> S] : \A i, j \in 1..Cardinality(S) : p[i] = p[j] => i = j}

\* the bytes of a []byte
SliceBytes(v) == [i \in 1..Len(v.items) |-> BitsNat(Low(v.items[i].n, 8))]

\* r, and after it (when r did not fail) one of the outcomes of S
Then(r, S) ==
  IF r.err # ErrNil THEN {r} ELSE {[out |-> r.out \o s.out, err |-> s.err] : s \in S}

\* strings.ToUpper and strings.ToLower, on strings of ASCII bytes
ToUpper(bs) == [i \in 1..Len(bs) |-> IF bs[i] \in 97..122 THEN bs[i] - 32 ELSE bs[i]]
ToLower(bs) == [i \in 1..Len(bs) |-> IF bs[i] \in 65..90 THEN bs[i] + 32 ELSE bs[i]]

\* the hooks of the test types: the bytes and the error of v.MarshalBinary(),
\* and v after v.UnmarshalBinary(bs) with its error
MarshalBinary(v) ==
  IF v.hooks = "text" THEN [out |-> ToUpper(v.fields[1].v.s), err |-> ErrNil]
  ELSE [out |-> <<>>, err |-> ErrMarshalHook]
UnmarshalBinary(v, bs) ==
  IF v.hooks = "text" THEN [v |-> [v EXCEPT !.fields[1].v = StringV(ToLower(bs))], err |-> ErrNil]
  ELSE [v |-> v, err |-> ErrUnmarshalHook]

\* EncodeValue(v): the set of outcomes, one per iteration order of the maps
\* it ranges over.  ro: the value was reached through an unexported field,
\* so v.Interface() panics.
RECURSIVE EncodeValue(_, _), EncodeAll(_, _), encodeArray(_, _), encodeMap(_, _), encodeObject(_, _)
EncodeValue(v, ro) ==
  CASE v.k = "bool" -> {Ok(encodeBool(v.b))}
    [] v.k = "int" -> {Ok(encodeInt(v.n))}
    [] v.k = "uint" -> {Ok(encodeUint(v.n))}
    [] v.k = "float" -> {encodeFloat(v.f)}
    [] v.k = "string" -> {Ok(encodeString(v.s))}
    [] v.k \in {"array", "slice"} ->
         IF ro THEN {Failed(<<>>, ErrPanic)}
         ELSE IF TypeOf(v) = ByteSliceT THEN {Ok(encodeBinary(SliceBytes(v)))}
         ELSE encodeArray(v, ro)
    [] v.k = "map" -> encodeMap(v, ro)
    [] v.k = "struct" -> encodeObject(v, ro)
    [] v.k \in {"ptr", "iface"} ->
         IF v.p = <<>> THEN {Ok(encodeNil)} ELSE EncodeValue(v.p[1], ro)
    [] OTHER -> {Ok(encodeNil)}

\* the values of vs one after the other, up to the first that fails;
\* ros[i]: vs[i] was reached through an unexported field
EncodeAll(vs, ros) ==
  IF vs = <<>> THEN {Ok(<<>>)}
  ELSE UNION {Then(r, EncodeAll(Tail(vs), Tail(ros))) : r \in EncodeValue(Head(vs), Head(ros))}

encodeArray(v, ro) ==
  Then(Ok(writeArrayType(Len(v.items))), EncodeAll(v.items, [i \in 1..Len(v.items) |-> ro]))

encodeMap(v, ro) ==
  UNION {Then(Ok(writeObjectType(Cardinality(v.kv))),
              EncodeAll([i \in 1..(2 * Len(p)) |-> p[(i + 1) \div 2][2 - (i % 2)]],
                        [i \in 1..(2 * Len(p)) |-> ro]))
         : p \in Perms(v.kv)}

encodeObject(v, ro) ==
  IF ro THEN {Failed(<<>>, ErrPanic)}
  ELSE IF v.hooks # "none" THEN
    LET r == MarshalBinary(v)
    IN  IF r.err # ErrNil THEN {Failed(<<>>, r.err)} ELSE {Ok(encodeBinary(r.out))}
  ELSE LET x == {i \in 1..Len(v.fields) : ~skipValue(v.fields[i].v)}
       IN  UNION {Then(Ok(writeObjectType(Cardinality(x))),
                       EncodeAll([i \in 1..(2 * Len(p)) |->
                                    IF i % 2 = 1 THEN StringV(v.fields[p[(i + 1) \div 2]].name)
                                    ELSE v.fields[p[(i + 1) \div 2]].v],
                                 [i \in 1..(2 * Len(p)) |->
                                    i % 2 = 0 /\ ~v.fields[p[(i + 1) \div 2]].exported]))
                  : p \in Perms(x)}

\* ------------------------------------------------------------------------
\* the Decoder, reading from a bytes.Reader over data; pos is the number of
\* bytes consumed
\* ------------------------------------------------------------------------

\* binary.Read of a k-byte value (io.ReadFull)
read(data, pos, k) ==
  IF pos >= Len(data) THEN [bs |-> <<>>, pos |-> pos, err |-> ErrEOF]
  ELSE IF Len(data) - pos < k
    THEN [bs |-> SubSeq(data, pos + 1, Len(data)), pos |-> Len(data), err |-> ErrUnexpectedEOF]
  ELSE [bs |-> SubSeq(data, pos + 1, pos + k), pos |-> pos + k, err |-> ErrNil]

\* Decoder.next: one Read into a fresh buffer of n bytes.  At the end of the
\* data Read reports io.EOF, also when n = 0; a short Read is no error and
\* leaves the tail of the buffer zero.
next(data, pos, n) ==
  IF pos >= Len(data) THEN [bs |-> <<>>, pos |-> pos, err |-> ErrEOF]
  ELSE LET m == Min(n, Len(data) - pos)
       IN  [bs |-> SubSeq(data, pos + 1, pos + m) \o Fill(n - m, 0),
            pos |-> pos + m, err |-> ErrNil]

\* the outcome of decoding: the destination, the reader and the error
Res(v, pos, err) == [v |-> v, pos |-> pos, err |-> err]

\* indirect(v) of a pointer: its target, allocated when the pointer is nil
indirect(v) == IF v.p = <<>> THEN Zero(v.elem) ELSE v.p[1]

\* the pointer v after its target was decoded with outcome r
Through(v, r) == Res(PtrV(v.elem, <<r.v>>), r.pos, r.err)

\* v.OverflowInt, v.OverflowUint, v.OverflowFloat
\* (OverflowIntAsUnsigned: the check of OverflowUint in the place of OverflowInt)
OverflowIntAsUnsigned(v, n) == n # ZeroExt(Low(n, v.bits), 64)
OverflowInt(v, n) == n # SignExt(Low(n, v.bits), 64)
OverflowUint(v, n) == n # ZeroExt(Low(n, v.bits), 64)
OverflowFloat(v, n) == v.bits = 32 /\ FLt(MaxFloat32, Abs(n)) /\ FLe(Abs(n), MaxFloat64)

\* v.SetInt, v.SetUint, v.SetFloat: the store converts to the width of v
SetInt(v, n) == IntV(v.bits, SignExt(Low(n, v.bits), 64))
SetUint(v, n) == UintV(v.bits, ZeroExt(Low(n, v.bits), 64))
SetFloat(v, n) == FloatV(v.bits, IF v.bits = 32 THEN Float64Of(Float32Of(n)) ELSE n)

\* the wire numbers: x.k is "int" for an int64, "uint" for a uint64 and
\* "float" for a float64, x.w its bits
Num(kind, w) == [k |-> kind, w |-> w]
\* reflect.ValueOf(x) of a wire number
NumValue(x) ==
  CASE x.k = "int" -> IntV(64, x.w)
    [] x.k = "uint" -> UintV(64, x.w)
    [] x.k = "float" -> FloatV(64, x.w)

\* decodeNilEverything: a decodeNil that resets a destination of every kind
decodeNilEverything(v, pos) == Res(Zero(TypeOf(v)), pos, ErrNil)

RECURSIVE decodeNil(_, _), decodeBool(_, _, _), decodeNumber(_, _, _, _)
decodeNil(v, pos) ==
  IF v.k \in {"iface", "ptr", "map", "slice"} THEN Res(Zero(TypeOf(v)), pos, ErrNil)
  ELSE Res(v, pos, ErrNil)

\* decodeBoolAnyInterface: a decodeBool that stores the bool in an interface
\* whatever its method set
decodeBoolAnyInterface(v, x, pos) ==
  CASE v.k = "bool" -> Res(BoolV(x), pos, ErrNil)
    [] v.k = "iface" -> Res(IfaceV(v.methods, <<BoolV(x)>>), pos, ErrNil)
    [] v.k = "ptr" -> Through(v, decodeBool(indirect(v), x, pos))
    [] OTHER -> Res(v, pos, ErrDecoderType)

decodeBool(v, x, pos) ==
  CASE v.k = "bool" -> Res(BoolV(x), pos, ErrNil)
    [] v.k = "iface" ->
         IF v.methods # 0 THEN Res(v, pos, ErrDecoderType)
         ELSE Res(IfaceV(0, <<BoolV(x)>>), pos, ErrNil)
    [] v.k = "ptr" -> Through(v, decodeBool(indirect(v), x, pos))
    [] OTHER -> Res(v, pos, ErrDecoderType)

\* decodeNumberInRange: a decodeNumber that refuses a uint64 above the largest
\* int64 for a signed destination, and a negative int64 for an unsigned one
decodeNumberInRange(v, x, pos, impl) ==
  CASE v.k = "int" /\ x.k = "uint" /\ x.w[1] = 1 -> Res(v, pos, ErrDecoderType)
    [] v.k = "uint" /\ x.k = "int" /\ x.w[1] = 1 -> Res(v, pos, ErrDecoderType)
    [] v.k = "int" /\ x.k # "float" /\ ~ (x.k = "uint" /\ x.w[1] = 1) ->
         IF OverflowInt(v, x.w) THEN Res(v, pos, ErrDecoderType)
         ELSE Res(SetInt(v, x.w), pos, ErrNil)
    [] v.k = "uint" /\ x.k # "float" /\ ~ (x.k = "int" /\ x.w[1] = 1) ->
         IF OverflowUint(v, x.w) THEN Res(v, pos, ErrDecoderType)
         ELSE Res(SetUint(v, x.w), pos, ErrNil)
    [] v.k = "ptr" -> Through(v, decodeNumber(indirect(v), x, pos, impl))
    [] OTHER -> Res(v, pos, ErrDecoderType)

\* decodeNumberStoreFirst: a decodeNumber that stores the number in an integer
\* destination and checks the overflow afterwards
decodeNumberStoreFirst(v, x, pos, impl) ==
  CASE v.k = "int" ->
         LET n == CASE x.k = "int" -> x.w
                    [] x.k = "uint" -> x.w
                    [] x.k = "float" -> FloatToInt(impl, x.w)
         IN  Res(SetInt(v, n), pos, IF OverflowInt(v, n) THEN ErrDecoderType ELSE ErrNil)
    [] v.k = "uint" ->
         LET n == CASE x.k = "uint" -> x.w
                    [] x.k = "int" -> x.w
                    [] x.k = "float" -> FloatToUint(impl, x.w)
         IN  Res(SetUint(v, n), pos, IF OverflowUint(v, n) THEN ErrDecoderType ELSE ErrNil)
    [] v.k = "float" ->
         LET n == CASE x.k = "float" -> x.w
                    [] x.k = "int" -> IntToFloat(x.w)
                    [] x.k = "uint" -> UintToFloat(x.w)
         IN  IF OverflowFloat(v, n) THEN Res(v, pos, ErrDecoderType)
             ELSE Res(SetFloat(v, n), pos, ErrNil)
    [] v.k = "iface" ->
         IF v.methods # 0 THEN Res(v, pos, ErrDecoderType)
         ELSE Res(IfaceV(0, <<NumValue(x)>>), pos, ErrNil)
    [] v.k = "ptr" -> Through(v, decodeNumber(indirect(v), x, pos, impl))
    [] OTHER -> Res(v, pos, ErrDecoderType)

decodeNumber(v, x, pos, impl) ==
  CASE v.k = "int" ->
         LET n == CASE x.k = "int" -> x.w
                    [] x.k = "uint" -> x.w
                    [] x.k = "float" -> FloatToInt(impl, x.w)
         IN  IF OverflowInt(v, n) THEN Res(v, pos, ErrDecoderType)
             ELSE Res(SetInt(v, n), pos, ErrNil)
    [] v.k = "uint" ->
         LET n == CASE x.k = "uint" -> x.w
                    [] x.k = "int" -> x.w
                    [] x.k = "float" -> FloatToUint(impl, x.w)
         IN  IF OverflowUint(v, n) THEN Res(v, pos, ErrDecoderType)
             ELSE Res(SetUint(v, n), pos, ErrNil)
    [] v.k = "float" ->
         LET n == CASE x.k = "float" -> x.w
                    [] x.k = "int" -> IntToFloat(x.w)
                    [] x.k = "uint" -> UintToFloat(x.w)
         IN  IF OverflowFloat(v, n) THEN Res(v, pos, ErrDecoderType)
             ELSE Res(SetFloat(v, n), pos, ErrNil)
    [] v.k = "iface" ->
         IF v.methods # 0 THEN Res(v, pos, ErrDecoderType)
         ELSE Res(IfaceV(0, <<NumValue(x)>>), pos, ErrNil)
    [] v.k = "ptr" -> Through(v, decodeNumber(indirect(v), x, pos, impl))
    [] OTHER -> Res(v, pos, ErrDecoderType)

\* ------------------------------------------------------------------------
\* strconv, on strings given as their bytes
\* ------------------------------------------------------------------------

chPlus == 43
chMinus == 45
ch0 == 48
ch9 == 57
IsDigit(c) == ch0 <= c /\ c <= ch9

\* the outcome of a parse: the value, and whether the parse failed
Parsed(x) == [x |-> x, fail |-> FALSE]
ParseFail == [x |-> Fill(64, 0), fail |-> TRUE]

\* acc * 10 + d of a word acc of whole 17-bit limbs and a digit or carry d,
\* modulo 2^Len(acc): computed limb by limb from the lowest
RECURSIVE MulAdd10(_, _)
MulAdd10(acc, d) ==
  IF acc = <<>> THEN <<>>
  ELSE LET x == BitsNat(Low(acc, 17)) * 10 + d
       IN  MulAdd10(High(acc, Len(acc) - 17), x \div 131072) \o NatBits(x % 131072, 17)

\* the decimal number of a string of digits as a 68-bit word; acc: the
\* number of the digits read so far, below 2^64
RECURSIVE DigitsWord(_, _)
DigitsWord(s, acc) ==
  IF s = <<>> THEN Parsed(acc)
  ELSE LET a == MulAdd10(acc, s[1] - ch0)
       IN  IF ~IsZeroBits(High(a, 4)) THEN ParseFail ELSE DigitsWord(Tail(s), a)

\* strconv.ParseUint(s, 10, 64): digits only, no sign, no underscore
ParseUint(s) ==
  IF s = <<>> \/ \E i \in 1..Len(s) : ~IsDigit(s[i]) THEN ParseFail
  ELSE LET r == DigitsWord(s, Fill(68, 0))
       IN  IF r.fail THEN ParseFail ELSE Parsed(Low(r.x, 64))

\* strconv.ParseInt(s, 10, 64): an optional sign, then ParseUint and the
\* range check against 2^63
ParseInt(s) ==
  IF s = <<>> THEN ParseFail
  ELSE LET neg == s[1] = chMinus
           un == ParseUint(IF s[1] \in {chPlus, chMinus} THEN Tail(s) ELSE s)
       IN  IF un.fail THEN ParseFail
           ELSE IF ~neg /\ ULe(MinInt64, un.x) THEN ParseFail
           ELSE IF neg /\ ULt(MinInt64, un.x) THEN ParseFail
           ELSE IF neg THEN Parsed(Neg(un.x)) ELSE Parsed(un.x)

\* the strings strconv.ParseBool accepts: 1 t T TRUE true True and
\* 0 f F FALSE false False
\* (TrueStringsLiteral: the literal true alone)
TrueStringsLiteral == { <<116, 114, 117, 101>> }
TrueStrings ==
  { <<49>>, <<116>>, <<84>>, <<84, 82, 85, 69>>, <<116, 114, 117, 101>>, <<84, 114, 117, 101>> }
FalseStrings ==
  { <<48>>, <<102>>, <<70>>, <<70, 65, 76, 83, 69>>, <<102, 97, 108, 115, 101>>,
    <<70, 97, 108, 115, 101>> }
ParseBool(s) ==
  IF s \in TrueStrings THEN [x |-> TRUE, fail |-> FALSE]
  ELSE IF s \in FalseStrings THEN [x |-> FALSE, fail |-> FALSE]
  ELSE [x |-> FALSE, fail |-> TRUE]

\* the float32 nearest to (-1)^s * mag, widened to float64; fails when it
\* is beyond the largest float32
MagToFloat32(s, mag) ==
  IF IsZeroBits(mag) THEN Parsed(Fill(64, 0))
  ELSE LET p == LeadingOne(mag)
           rest == SubSeq(mag, p + 1, 64)
           ex == NatBits(127 + 64 - p, 8)
           g == IF Len(rest) <= 23 THEN ex \o rest \o Fill(23 - Len(rest), 0)
                ELSE RoundEven(ex \o High(rest, 23), SubSeq(rest, 24, Len(rest)))
       IN  Parsed(Float64Of(<<s>> \o g))

\* strconv.ParseFloat(s, bits) on decimal integer literals: an optional
\* sign and digits that denote a number below 2^64.  The other literals
\* ParseFloat accepts (a fraction, an exponent, hexadecimal, inf, nan) use
\* the characters . e E x X p P _ i I n N, which the strings of this model
\* do not contain.
ParseFloat(s, bits) ==
  IF s = <<>> THEN ParseFail
  ELSE LET neg == s[1] = chMinus
           un == ParseUint(IF s[1] \in {chPlus, chMinus} THEN Tail(s) ELSE s)
           sg == IF neg THEN 1 ELSE 0
       IN  IF un.fail THEN ParseFail
           ELSE IF IsZeroBits(un.x) THEN Parsed(<<sg>> \o Fill(63, 0))
           ELSE IF bits = 32 THEN MagToFloat32(sg, un.x)
           ELSE Parsed(MagToFloat(sg, un.x))

\* the []byte of the bytes bs
BytesValue(bs) == SliceV(UintT(8), [i \in 1..Len(bs) |-> UintV(8, NatBits(bs[i], 64))])

RECURSIVE decodeString(_, _, _, _), decodeBinary(_, _, _, _)
decodeString(v, n, data, pos) ==
  LET d == next(data, pos, n)
      Bad == Res(v, pos, ErrDecoderType)
      \* the destination after a successful d.next, or the error of d.next
      Read(w, fail) ==
        IF d.err # ErrNil THEN Res(v, d.pos, d.err)
        ELSE IF fail THEN Res(v, d.pos, ErrDecoderType)
        ELSE Res(w, d.pos, ErrNil)
  IN  CASE v.k = "string" -> Read(StringV(d.bs), FALSE)
        [] v.k = "slice" ->
             IF v.elem.k # "uint" \/ v.elem.bits # 8 THEN Bad
             ELSE Read(BytesValue(d.bs), FALSE)
        [] v.k = "bool" ->
             LET b == ParseBool(d.bs) IN Read(BoolV(b.x), b.fail)
        [] v.k = "int" ->
             LET i == ParseInt(d.bs) IN Read(SetInt(v, i.x), i.fail \/ OverflowInt(v, i.x))
        [] v.k = "uint" ->
             LET u == ParseUint(d.bs) IN Read(SetUint(v, u.x), u.fail \/ OverflowUint(v, u.x))
        [] v.k = "float" ->
             LET f == ParseFloat(d.bs, v.bits)
             IN  Read(SetFloat(v, f.x), f.fail \/ OverflowFloat(v, f.x))
        [] v.k = "iface" ->
             IF v.methods # 0 THEN Bad ELSE Read(IfaceV(0, <<StringV(d.bs)>>), FALSE)
        [] v.k = "ptr" -> Through(v, decodeString(indirect(v), n, data, pos))
        [] OTHER -> Bad

\* the Struct arm reads the payload and hands it to the from-bytes hook of
\* the struct; a struct without the hook is a type error
decodeBinary(v, n, data, pos) ==
  LET d == next(data, pos, n)
      Bad == Res(v, pos, ErrDecoderType)
      Read(w) == IF d.err # ErrNil THEN Res(v, d.pos, d.err) ELSE Res(w, d.pos, ErrNil)
  IN  CASE v.k = "slice" ->
             IF v.elem.k # "uint" \/ v.elem.bits # 8 THEN Bad ELSE Read(BytesValue(d.bs))
        [] v.k = "iface" ->
             IF v.methods # 0 THEN Bad ELSE Read(IfaceV(0, <<BytesValue(d.bs)>>))
        [] v.k = "struct" ->
             IF v.hooks = "none" THEN Bad
             ELSE IF d.err # ErrNil THEN Res(v, d.pos, d.err)
             ELSE LET u == UnmarshalBinary(v, d.bs) IN Res(u.v, d.pos, u.err)
        [] v.k = "ptr" -> Through(v, decodeBinary(indirect(v), n, data, pos))
        [] OTHER -> Bad

\* v.SetMapIndex(key, val) on the pairs kv of a map
SetMapIndex(kv, key, val) == {e \in kv : e[1] # key} \cup {<<key, val>>}

\* a key a Go map cannot hash: an interface that holds a slice or a map
Unhashable(key) == key.k = "iface" /\ key.p # <<>> /\ key.p[1].k \in {"slice", "map"}

\* the index of the field of v named xk that can be set, 0 when there is none
FieldNamed(v, xk) ==
  IF \E j \in 1..Len(v.fields) : v.fields[j].name = xk /\ v.fields[j].exported
  THEN CHOOSE j \in 1..Len(v.fields) : v.fields[j].name = xk /\ v.fields[j].exported
  ELSE 0

RECURSIVE DecodeInto(_, _, _, _), decodeArrayItems(_, _, _, _, _, _), decodeArray(_, _, _, _, _),
          decodeObjectItems(_, _, _, _, _), decodeObject(_, _, _, _, _),
          decodeFields(_, _, _, _, _)

\* the items i..n of the sequence v decoded in place, i counted from 1
decodeArrayItems(v, i, n, data, pos, impl) ==
  IF i > n THEN Res(v, pos, ErrNil)
  ELSE LET r == DecodeInto(v.items[i], data, pos, impl)
           w == [v EXCEPT !.items[i] = r.v]
       IN  IF r.err # ErrNil THEN Res(w, r.pos, r.err)
           ELSE decodeArrayItems(w, i + 1, n, data, r.pos, impl)

\* decodeArrayKeepingRest: a decodeArray that leaves the slots of an array
\* after the n decoded ones as they are
decodeArrayKeepingRest(v, n, data, pos, impl) ==
  CASE v.k = "array" ->
         IF n > Len(v.items) THEN Res(v, pos, ErrDecoderType)
         ELSE decodeArrayItems(v, 1, n, data, pos, impl)
    [] v.k = "slice" ->
         LET nv == [v EXCEPT !.items =
                      [i \in 1..n |-> IF i <= Len(v.items) THEN v.items[i] ELSE Zero(v.elem)]]
         IN  decodeArrayItems(nv, 1, n, data, pos, impl)
    [] v.k = "iface" ->
         IF v.methods # 0 THEN Res(v, pos, ErrDecoderType)
         ELSE LET xv == SliceV(IfaceT(0), [i \in 1..n |-> IfaceV(0, <<>>)])
                  r == decodeArrayItems(xv, 1, n, data, pos, impl)
              IN  IF r.err # ErrNil THEN Res(v, r.pos, r.err)
                  ELSE Res(IfaceV(0, <<r.v>>), r.pos, ErrNil)
    [] v.k = "ptr" -> Through(v, decodeArray(indirect(v), n, data, pos, impl))
    [] OTHER -> Res(v, pos, ErrDecoderType)

decodeArray(v, n, data, pos, impl) ==
  CASE v.k = "array" ->
         IF n > Len(v.items) THEN Res(v, pos, ErrDecoderType)
         ELSE LET r == decodeArrayItems(v, 1, n, data, pos, impl)
              IN  IF r.err # ErrNil THEN r
                  ELSE Res([r.v EXCEPT !.items =
                              [i \in 1..Len(v.items) |->
                                 IF i <= n THEN r.v.items[i] ELSE Zero(v.elem)]],
                           r.pos, ErrNil)
    [] v.k = "slice" ->
         LET nv == [v EXCEPT !.items =
                      [i \in 1..n |-> IF i <= Len(v.items) THEN v.items[i] ELSE Zero(v.elem)]]
         IN  decodeArrayItems(nv, 1, n, data, pos, impl)
    [] v.k = "iface" ->
         IF v.methods # 0 THEN Res(v, pos, ErrDecoderType)
         ELSE LET xv == SliceV(IfaceT(0), [i \in 1..n |-> IfaceV(0, <<>>)])
                  r == decodeArrayItems(xv, 1, n, data, pos, impl)
              IN  IF r.err # ErrNil THEN Res(v, r.pos, r.err)
                  ELSE Res(IfaceV(0, <<r.v>>), r.pos, ErrNil)
    [] v.k = "ptr" -> Through(v, decodeArray(indirect(v), n, data, pos, impl))
    [] OTHER -> Res(v, pos, ErrDecoderType)

\* n pairs decoded into the map v
decodeObjectItems(v, n, data, pos, impl) ==
  IF n = 0 THEN Res(v, pos, ErrNil)
  ELSE LET vk == DecodeInto(Zero(v.key), data, pos, impl)
           vv == DecodeInto(Zero(v.elem), data, vk.pos, impl)
       IN  IF vk.err # ErrNil THEN Res(v, vk.pos, vk.err)
           ELSE IF vv.err # ErrNil THEN Res(v, vv.pos, vv.err)
           ELSE IF Unhashable(vk.v) THEN Res(v, vv.pos, ErrPanic)
           ELSE decodeObjectItems([v EXCEPT !.kv = SetMapIndex(v.kv, vk.v, vv.v)],
                                  n - 1, data, vv.pos, impl)

\* decodeFieldsLenient: a decodeFields that ends without an error at a key
\* that names no field
decodeFieldsLenient(xv, n, data, pos, impl) ==
  IF n = 0 THEN Res(xv, pos, ErrNil)
  ELSE LET xk == DecodeInto(StringV(<<>>), data, pos, impl)
           j == FieldNamed(xv, xk.v.s)
           f == DecodeInto(xv.fields[j].v, data, xk.pos, impl)
       IN  IF xk.err # ErrNil THEN Res(xv, xk.pos, xk.err)
           ELSE IF j = 0 THEN Res(xv, xk.pos, ErrNil)
           ELSE IF f.err # ErrNil THEN Res(xv, f.pos, f.err)
           ELSE decodeFields([xv EXCEPT !.fields[j].v = f.v], n - 1, data, f.pos, impl)

\* n pairs decoded into the fields of the struct xv
decodeFields(xv, n, data, pos, impl) ==
  IF n = 0 THEN Res(xv, pos, ErrNil)
  ELSE LET xk == DecodeInto(StringV(<<>>), data, pos, impl)
           j == FieldNamed(xv, xk.v.s)
           f == DecodeInto(xv.fields[j].v, data, xk.pos, impl)
       IN  IF xk.err # ErrNil THEN Res(xv, xk.pos, xk.err)
           ELSE IF j = 0 THEN Res(xv, xk.pos, ErrDecoderType)
           ELSE IF f.err # ErrNil THEN Res(xv, f.pos, f.err)
           ELSE decodeFields([xv EXCEPT !.fields[j].v = f.v], n - 1, data, f.pos, impl)

\* decodeObjectMerge: a decodeObject that keeps the entries a map holds
decodeObjectMerge(v, n, data, pos, impl) ==
  CASE v.k = "map" -> decodeObjectItems(v, n, data, pos, impl)
    [] v.k = "struct" ->
         LET r == decodeFields(Zero(TypeOf(v)), n, data, pos, impl)
         IN  IF r.err # ErrNil THEN Res(v, r.pos, r.err) ELSE r
    [] v.k = "ptr" -> Through(v, decodeObject(indirect(v), n, data, pos, impl))
    [] OTHER -> Res(v, pos, ErrDecoderType)

\* decodeObjectInPlace: a decodeObject that decodes into the fields of the
\* destination itself, not into a new struct
decodeObjectInPlace(v, n, data, pos, impl) ==
  CASE v.k = "map" -> decodeObjectItems([v EXCEPT !.kv = {}], n, data, pos, impl)
    [] v.k = "struct" ->
         LET r == decodeFields(v, n, data, pos, impl)
         IN  IF r.err # ErrNil THEN Res(v, r.pos, r.err) ELSE r
    [] v.k = "ptr" -> Through(v, decodeObject(indirect(v), n, data, pos, impl))
    [] OTHER -> Res(v, pos, ErrDecoderType)

decodeObject(v, n, data, pos, impl) ==
  CASE v.k = "map" -> decodeObjectItems([v EXCEPT !.kv = {}], n, data, pos, impl)
    [] v.k = "struct" ->
         LET r == decodeFields(Zero(TypeOf(v)), n, data, pos, impl)
         IN  IF r.err # ErrNil THEN Res(v, r.pos, r.err) ELSE r
    [] v.k = "iface" ->
         IF v.methods # 0 THEN Res(v, pos, ErrDecoderType)
         ELSE LET r == decodeObjectItems(MapV(IfaceT(0), IfaceT(0), {}), n, data, pos, impl)
              IN  IF r.err # ErrNil THEN Res(v, r.pos, r.err)
                  ELSE Res(IfaceV(0, <<r.v>>), r.pos, ErrNil)
    [] v.k = "ptr" -> Through(v, decodeObject(indirect(v), n, data, pos, impl))
    [] OTHER -> Res(v, pos, ErrDecoderType)

\* DecodeIntoRejecting: a DecodeInto that knows no tag and returns a
\* DecoderError for the byte it has read
DecodeIntoRejecting(v, data, pos, impl) ==
  LET p == next(data, pos, 1)
  IN  IF p.err # ErrNil THEN Res(v, p.pos, p.err) ELSE Res(v, p.pos, ErrDecoder)

\* DecodeValue after its pointer checks: one record decoded into v, the
\* target of the pointer
DecodeInto(v, data, pos, impl) ==
  LET p == next(data, pos, 1)
      t == p.bs[1]
      \* d.read of a k-byte number or length, then the handler F of its bits
      Fixed(k, F(_, _)) ==
        LET x == read(data, p.pos, k)
        IN  IF x.err # ErrNil THEN Res(v, x.pos, x.err) ELSE F(BytesWord(x.bs), x.pos)
      OfInt(w, q) == decodeNumber(v, Num("int", SignExt(w, 64)), q, impl)
      OfUint(w, q) == decodeNumber(v, Num("uint", ZeroExt(w, 64)), q, impl)
      F32(w, q) == decodeNumber(v, Num("float", Float64Of(w)), q, impl)
      F64(w, q) == decodeNumber(v, Num("float", w), q, impl)
      Str(w, q) == decodeString(v, BitsNat(w), data, q)
      Bin(w, q) == decodeBinary(v, BitsNat(w), data, q)
      Arr(w, q) == decodeArray(v, BitsNat(w), data, q, impl)
      Obj(w, q) == decodeObject(v, BitsNat(w), data, q, impl)
  IN  IF p.err # ErrNil THEN Res(v, p.pos, p.err)
      ELSE CASE t = tNil -> decodeNil(v, p.pos)
             [] t = tTrue -> decodeBool(v, TRUE, p.pos)
             [] t = tFalse -> decodeBool(v, FALSE, p.pos)
             [] t = tInt8 -> Fixed(1, OfInt)
             [] t = tInt16 -> Fixed(2, OfInt)
             [] t = tInt32 -> Fixed(4, OfInt)
             [] t = tInt64 -> Fixed(8, OfInt)
             [] t = tUint8 -> Fixed(1, OfUint)
             [] t = tUint16 -> Fixed(2, OfUint)
             [] t = tUint32 -> Fixed(4, OfUint)
             [] t = tUint64 -> Fixed(8, OfUint)
             [] t = tFloat32 -> Fixed(4, F32)
             [] t = tFloat64 -> Fixed(8, F64)
             [] t = tString8 -> Fixed(1, Str)
             [] t = tString16 -> Fixed(2, Str)
             [] t = tString32 -> Fixed(4, Str)
             [] t = tBinary8 -> Fixed(1, Bin)
             [] t = tBinary16 -> Fixed(2, Bin)
             [] t = tBinary32 -> Fixed(4, Bin)
             [] t = tArray8 -> Fixed(1, Arr)
             [] t = tArray16 -> Fixed(2, Arr)
             [] t = tArray32 -> Fixed(4, Arr)
             [] t = tObject8 -> Fixed(1, Obj)
             [] t = tObject16 -> Fixed(2, Obj)
             [] t = tObject32 -> Fixed(4, Obj)
             [] OTHER -> Res(v, p.pos, ErrNil)

\* reflect.ValueOf(nil): the zero Value, of kind Invalid
Invalid == [k |-> "invalid"]

\* Decoder.DecodeValue(h): h must be a pointer that is not nil.  The message
\* of the error for a non-pointer calls v.Type(), which panics for the zero
\* Value.
DecodeValue(h, data, pos, impl) ==
  IF h.k # "ptr" THEN Res(h, pos, IF h = Invalid THEN ErrPanic ELSE ErrDecoder)
  ELSE IF h.p = <<>> THEN Res(h, pos, ErrDecoder)
  ELSE Through(h, DecodeInto(h.p[1], data, pos, impl))

\* ------------------------------------------------------------------------
\* the program: Marshal(vv...) into a bytes.Buffer, then Unmarshal(data,
\* dst...) from a bytes.Reader
\* ------------------------------------------------------------------------

VARIABLES
  vv,     \* the values given to Marshal
  buf,    \* the bytes.Buffer the Encoder writes to
  ei,     \* encode: the number of values encoded
  merr,   \* the error Marshal returns
  data,   \* the bytes given to Unmarshal
  dst,    \* the destinations given to Unmarshal
  dst0,   \* the destinations as they were before Unmarshal
  di,     \* decode: the number of destinations decoded
  pos,    \* the bytes.Reader: the number of bytes read
  derr,   \* the error Unmarshal returns
  pc,     \* "encode", "decode", "done", or "unit" for a call of one method
  impl,   \* the build: what an out-of-range float conversion yields
  call    \* the last call of one Encoder method on its own

vars == <<vv, buf, ei, merr, data, dst, dst0, di, pos, derr, pc, impl, call>>

Impls == {"amd64", "arm64"}
NoCall == [op |-> "none", w |-> <<>>, n |-> 0]

\* encode: enc.Encode of the next value; a failure ends the loop
Encode ==
  /\ pc = "encode" /\ merr = ErrNil /\ ei < Len(vv)
  /\ \E r \in EncodeValue(vv[ei + 1], FALSE) :
       /\ buf' = buf \o r.out
       /\ merr' = r.err
  /\ ei' = ei + 1
  /\ UNCHANGED <<vv, data, dst, dst0, di, pos, derr, pc, impl, call>>

\* a Marshal that returns the bytes written so far together with the error
MarshalReturnPartial ==
  /\ pc = "encode" /\ (merr # ErrNil \/ ei = Len(vv))
  /\ data' = buf
  /\ pc' = IF merr = ErrNil THEN "decode" ELSE "done"
  /\ UNCHANGED <<vv, buf, ei, merr, dst, dst0, di, pos, derr, impl, call>>

\* Marshal returns buf.Bytes(), or nil and the error; the caller hands the
\* bytes to Unmarshal
MarshalReturn ==
  /\ pc = "encode" /\ (merr # ErrNil \/ ei = Len(vv))
  /\ data' = IF merr = ErrNil THEN buf ELSE <<>>
  /\ pc' = IF merr = ErrNil THEN "decode" ELSE "done"
  /\ UNCHANGED <<vv, buf, ei, merr, dst, dst0, di, pos, derr, impl, call>>

\* a decode loop that goes on to the next destination after a failure
DecodeAfterFailure ==
  /\ pc = "decode" /\ di < Len(dst)
  /\ LET r == DecodeValue(dst[di + 1], data, pos, impl)
     IN  /\ dst' = [dst EXCEPT ![di + 1] = r.v]
         /\ pos' = r.pos
         /\ derr' = r.err
  /\ di' = di + 1
  /\ UNCHANGED <<vv, buf, ei, merr, data, dst0, pc, impl, call>>

\* decode: dec.Decode of the next destination; a failure ends the loop
Decode ==
  /\ pc = "decode" /\ derr = ErrNil /\ di < Len(dst)
  /\ LET r == DecodeValue(dst[di + 1], data, pos, impl)
     IN  /\ dst' = [dst EXCEPT ![di + 1] = r.v]
         /\ pos' = r.pos
         /\ derr' = r.err
  /\ di' = di + 1
  /\ UNCHANGED <<vv, buf, ei, merr, data, dst0, pc, impl, call>>

UnmarshalReturn ==
  /\ pc = "decode" /\ (derr # ErrNil \/ di = Len(dst))
  /\ pc' = "done"
  /\ UNCHANGED <<vv, buf, ei, merr, data, dst, dst0, di, pos, derr, impl, call>>

\* ------------------------------------------------------------------------
\* the inputs of the model
\* ------------------------------------------------------------------------

\* the longest sequence and map, the longest short string, and the most
\* values a call of Marshal is given
MaxLen == 2
MaxStrLen == 2
MaxArgs == 2

\* the widths of the integers, and the bit counts at which a tier ends
Widths == {8, 16, 32, 64}
Cuts == {7, 8, 15, 16, 31, 32}

\* b-bit patterns: 0, 1, -1, the largest and the smallest signed number, and
\* 2^t - 1, 2^t, -2^t, -2^t - 1 for every cut t below b
Pat(b) ==
  {Fill(b, 0), ZeroExt(<<1>>, b), Fill(b, 1), <<0>> \o Fill(b - 1, 1), <<1>> \o Fill(b - 1, 0)}
  \cup UNION {{ZeroExt(Fill(t, 1), b), ZeroExt(<<1>> \o Fill(t, 0), b),
               Not(ZeroExt(Fill(t, 1), b)), Not(ZeroExt(<<1>> \o Fill(t, 0), b))}
              : t \in {c \in Cuts : c < b}}

IntVals(b) == {IntV(b, SignExt(p, 64)) : p \in Pat(b)}
UintVals(b) == {UintV(b, ZeroExt(p, 64)) : p \in Pat(b)}
\* 200 and 300 as int
Int200 == IntV(64, IntWord(200))
Int300 == IntV(64, IntWord(300))

\* float64: every sign, the exponents around the float32 range and at the
\* ends of the float64 range, mantissas with and without bits below the 23
\* a float32 keeps
FloatExps == {0, 1, 873, 874, 880, 896, 897, 1022, 1023, 1047, 1150, 1151, 2046}
FloatMans ==
  { Fill(52, 0), Fill(23, 1) \o Fill(29, 0), <<1>> \o Fill(51, 0), Fill(51, 0) \o <<1>>,
    Fill(52, 1), Fill(22, 0) \o <<1, 1>> \o Fill(28, 0),
    <<1, 0, 0, 1>> \o Fill(48, 0) }
Float64Words == {MkFloat(s, e, m) : s \in {0, 1}, e \in FloatExps, m \in FloatMans}
\* float32: the float64 samples that a float32 holds exactly
Float32Words == {f \in Float64Words : Float64Of(Float32Of(f)) = f}
Float64Vals == {FloatV(64, f) : f \in Float64Words}
Float32Vals == {FloatV(32, f) : f \in Float32Words}

\* all sequences over S of length at most n
SeqsUpTo(S, n) == UNION {[1..m -> S] : m \in 0..n}

\* short strings over a, 1 and -, and the strings of the lengths at which a
\* length tier ends
Chars == {97, 49, 45}
LongLens == {255, 256}
StringVals ==
  {StringV(s) : s \in SeqsUpTo(Chars, MaxStrLen)} \cup {StringV(Fill(n, 65)) : n \in LongLens}
ByteVals ==
  {BytesValue(s) : s \in SeqsUpTo({0, 255}, MaxStrLen)} \cup {BytesValue(Fill(n, 66)) : n \in LongLens}

\* struct types: field names A, B, C and the unexported x
Field(name, exported, t) == [name |-> name, exported |-> exported, t |-> t]
TA == StructT(<<Field(<<65>>, TRUE, BoolT), Field(<<66>>, TRUE, IntT(16)),
                Field(<<67>>, TRUE, SliceT(BoolT))>>)
TB == StructT(<<Field(<<65>>, TRUE, UintT(8)), Field(<<120>>, FALSE, IntT(32))>>)
TC == StructT(<<Field(<<65>>, TRUE, StructT(<<Field(<<65>>, TRUE, BoolT),
                                             Field(<<66>>, TRUE, UintT(32))>>)),
                Field(<<66>>, TRUE, ArrayT(UintT(16), 2)),
                Field(<<67>>, TRUE, MapT(UintT(8), BoolT))>>)
TD == StructT(<<Field(<<65>>, TRUE, StringT), Field(<<66>>, TRUE, ByteSliceT),
                Field(<<67>>, TRUE, FloatT(64))>>)

\* a value of type t none of whose parts is zero or empty: what a
\* destination in use holds before Unmarshal
RECURSIVE Dirty(_)
Dirty(t) ==
  CASE t.k = "bool" -> BoolV(TRUE)
    [] t.k = "int" -> IntV(t.bits, Fill(64, 1))
    [] t.k = "uint" -> UintV(t.bits, ZeroExt(Fill(t.bits, 1), 64))
    [] t.k = "float" -> FloatV(t.bits, MkFloat(1, 1023, <<1>> \o Fill(51, 0)))
    [] t.k = "string" -> StringV(<<122>>)
    [] t.k = "slice" -> SliceV(t.elem, <<Dirty(t.elem)>>)
    [] t.k = "array" -> ArrayV(t.elem, [i \in 1..t.len |-> Dirty(t.elem)])
    [] t.k = "map" -> MapV(t.key, t.elem, {<<Dirty(t.key), Dirty(t.elem)>>})
    [] t.k = "struct" ->
         HookedV(t.hooks,
                 [i \in 1..Len(t.fields) |->
                    [name |-> t.fields[i].name, exported |-> t.fields[i].exported,
                     v |-> Dirty(t.fields[i].t)]])
    [] t.k = "ptr" -> PtrV(t.elem, <<Dirty(t.elem)>>)
    [] t.k = "iface" -> IfaceV(t.methods, <<BoolV(TRUE)>>)
    [] t.k = "chan" -> ChanV

\* a few values of every type, for the members of a composite value
RECURSIVE Few(_)
Few(t) ==
  CASE t.k = "bool" -> {BoolV(FALSE), BoolV(TRUE)}
    [] t.k = "int" -> {IntV(t.bits, Fill(64, 0)), IntV(t.bits, Fill(64, 1)),
                       IntV(t.bits, ZeroExt(Fill(t.bits - 1, 1), 64))}
    [] t.k = "uint" -> {UintV(t.bits, Fill(64, 0)), UintV(t.bits, ZeroExt(Fill(t.bits, 1), 64))}
    [] t.k = "float" -> {FloatV(t.bits, Fill(64, 0)), FloatV(t.bits, MkFloat(1, 1023, <<1>> \o Fill(51, 0)))}
    [] t.k = "string" -> {StringV(<<>>), StringV(<<97>>)}
    [] t.k = "slice" -> {SliceV(t.elem, <<>>)} \cup {SliceV(t.elem, <<x>>) : x \in Few(t.elem)}
    [] t.k = "array" -> {ArrayV(t.elem, [i \in 1..t.len |-> x]) : x \in Few(t.elem)}
    [] t.k = "map" -> {MapV(t.key, t.elem, {})}
                        \cup {MapV(t.key, t.elem, {<<x, y>>}) : x \in Few(t.key), y \in Few(t.elem)}
    [] t.k = "struct" -> {Zero(t), Dirty(t)}
    [] t.k = "ptr" -> {PtrV(t.elem, <<>>)} \cup {PtrV(t.elem, <<x>>) : x \in Few(t.elem)}
    [] t.k = "iface" -> {IfaceV(t.methods, <<>>), IfaceV(t.methods, <<BoolV(FALSE)>>)}
    [] t.k = "chan" -> {ChanV}

\* the sets of pairs over K and V that are maps of at most n entries
MapsUpTo(K, V, n) ==
  {kv \in SUBSET (K \X V) : Cardinality(kv) <= n /\ \A e, f \in kv : e[1] = f[1] => e = f}

\* the structs of type t whose fields range over the sequences of values fs
StructsOf(t, fs) ==
  {HookedV(t.hooks,
           [i \in 1..Len(t.fields) |->
              [name |-> t.fields[i].name, exported |-> t.fields[i].exported, v |-> f[i]]])
   : f \in fs}

\* the values of type t given to Marshal
Samples(t) ==
  CASE t.k = "slice" -> {SliceV(t.elem, s) : s \in SeqsUpTo(Few(t.elem), MaxLen)}
    [] t.k = "array" -> {ArrayV(t.elem, s) : s \in [1..t.len -> Few(t.elem)]}
    [] t.k = "map" -> {MapV(t.key, t.elem, kv) : kv \in MapsUpTo(Few(t.key), Few(t.elem), MaxLen)}
    [] t.k = "struct" ->
         StructsOf(t, {f \in [1..Len(t.fields) -> UNION {Few(t.fields[i].t) : i \in 1..Len(t.fields)}]
                         : \A i \in 1..Len(t.fields) : f[i] \in Few(t.fields[i].t)})
    [] OTHER -> Few(t)

CompositeTypes ==
  { SliceT(BoolT), SliceT(IntT(16)), SliceT(UintT(64)), SliceT(ByteSliceT), SliceT(StringT),
    SliceT(SliceT(BoolT)),
    ArrayT(IntT(8), 2), ArrayT(UintT(8), 2), ArrayT(SliceT(BoolT), 2),
    MapT(UintT(8), BoolT), MapT(IntT(32), SliceT(BoolT)), MapT(BoolT, UintT(16)),
    MapT(StringT, IntT(64)),
    TA, TB, TC, TD, PtrT(IntT(64)), PtrT(TA) }

Values ==
  {BoolV(FALSE), BoolV(TRUE), Int200, Int300}
  \cup UNION {IntVals(b) \cup UintVals(b) : b \in Widths}
  \cup Float64Vals \cup Float32Vals \cup StringVals \cup ByteVals
  \cup UNION {Samples(t) : t \in CompositeTypes}

\* the calls of Marshal: one value of the whole range, alone or with the
\* same short value at every other place
Fillers == {BoolV(TRUE), StringV(<<>>)}
Batches ==
  {<<v>> : v \in Values}
  \cup UNION {{[i \in 1..n |-> IF i = j THEN v ELSE f] : j \in 1..n, v \in Values, f \in Fillers}
              : n \in 2..MaxArgs}

\* the destinations Unmarshal is given for the values b: a pointer to a
\* zero value of the type of each, or to a value in use
Dests(b, dirty) ==
  [i \in 1..Len(b) |->
     PtrV(TypeOf(b[i]), <<IF dirty THEN Dirty(TypeOf(b[i])) ELSE Zero(TypeOf(b[i]))>>)]

Init ==
  /\ vv \in Batches
  /\ \E dirty \in BOOLEAN : dst = Dests(vv, dirty)
  /\ dst0 = dst
  /\ impl \in Impls
  /\ buf = <<>> /\ ei = 0 /\ merr = ErrNil
  /\ data = <<>> /\ di = 0 /\ pos = 0 /\ derr = ErrNil
  /\ pc = "encode"
  /\ call = NoCall

Next == Encode \/ MarshalReturn \/ Decode \/ UnmarshalReturn

Spec == Init /\ [][Next]_vars

\* ------------------------------------------------------------------------
\* one Encoder method called on its own, on a fresh buffer
\* ------------------------------------------------------------------------

\* 2^t - 1, 2^t, -2^t and -2^t - 1 for every t, as 64-bit words
TierWords ==
  Pat(64) \cup UNION {{ZeroExt(Fill(t, 1), 64), ZeroExt(<<1>> \o Fill(t, 0), 64),
                       Not(ZeroExt(Fill(t, 1), 64)), Not(ZeroExt(<<1>> \o Fill(t, 0), 64))}
                      : t \in 0..62}
       \cup {IntWord(200), IntWord(300)}
\* the lengths around the ends of the length tiers
TierLens == {0, 1, 255, 256, 65535, 65536}
\* the largest length the model can count
MaxInt32 == 2147483647

Called(op, w, n, out) ==
  /\ pc = "unit" /\ call = NoCall
  /\ call' = [op |-> op, w |-> w, n |-> n]
  /\ buf' = out
  /\ UNCHANGED <<vv, ei, merr, data, dst, dst0, di, pos, derr, pc, impl>>

CallEncodeInt == \E v \in TierWords : Called("encodeInt", v, 0, encodeInt(v))
CallEncodeUint == \E v \in TierWords : Called("encodeUint", v, 0, encodeUint(v))
\* EncodeValue of an integer of a declared width
CallEncodeValue ==
  \E b \in Widths : \E v \in IntVals(b) \cup UintVals(b) : \E r \in EncodeValue(v, FALSE) :
    Called(v.k, v.n, b, r.out)
CallEncodeString == \E n \in TierLens : Called("encodeString", <<>>, n, encodeString(Fill(n, 65)))
CallEncodeBinary == \E n \in TierLens : Called("encodeBinary", <<>>, n, encodeBinary(Fill(n, 66)))
CallWriteArrayType ==
  \E n \in TierLens \cup {MaxInt32} : Called("writeArrayType", <<>>, n, writeArrayType(n))
CallWriteObjectType ==
  \E n \in TierLens \cup {MaxInt32} : Called("writeObjectType", <<>>, n, writeObjectType(n))

InitUnit ==
  /\ vv = <<>> /\ dst = <<>> /\ dst0 = <<>>
  /\ impl \in Impls
  /\ buf = <<>> /\ ei = 0 /\ merr = ErrNil
  /\ data = <<>> /\ di = 0 /\ pos = 0 /\ derr = ErrNil
  /\ pc = "unit"
  /\ call = NoCall

NextUnit ==
  \/ CallEncodeInt \/ CallEncodeUint \/ CallEncodeValue
  \/ CallEncodeString \/ CallEncodeBinary
  \/ CallWriteArrayType \/ CallWriteObjectType

SpecUnit == InitUnit /\ [][NextUnit]_vars

\* ------------------------------------------------------------------------
\* Unmarshal of one numeric record of any tier into a numeric destination
\* ------------------------------------------------------------------------

\* float32 and float64 payloads: the samples, the infinities and two NaNs
WireFloat64 ==
  Float64Words \cup {MkFloat(s, 2047, m) : s \in {0, 1}, m \in {Fill(52, 0), <<1>> \o Fill(51, 0),
                                                                 Fill(51, 0) \o <<1>>}}
WireFloat32 == {Float32Of(f) : f \in WireFloat64}

WireRecords ==
  UNION { {<<tInt8>> \o WordBytes(p) : p \in Pat(8)}, {<<tInt16>> \o WordBytes(p) : p \in Pat(16)},
          {<<tInt32>> \o WordBytes(p) : p \in Pat(32)}, {<<tInt64>> \o WordBytes(p) : p \in Pat(64)},
          {<<tUint8>> \o WordBytes(p) : p \in Pat(8)}, {<<tUint16>> \o WordBytes(p) : p \in Pat(16)},
          {<<tUint32>> \o WordBytes(p) : p \in Pat(32)}, {<<tUint64>> \o WordBytes(p) : p \in Pat(64)},
          {<<tFloat32>> \o WordBytes(p) : p \in WireFloat32},
          {<<tFloat64>> \o WordBytes(p) : p \in WireFloat64} }

NumericTypes == {IntT(b) : b \in Widths} \cup {UintT(b) : b \in Widths} \cup {FloatT(32), FloatT(64)}

InitWire ==
  /\ vv = <<>>
  /\ data \in WireRecords
  /\ \E t \in NumericTypes : \E d \in {Zero(t), Dirty(t)} : dst = <<PtrV(t, <<d>>)>>
  /\ dst0 = dst
  /\ impl \in Impls
  /\ buf = <<>> /\ ei = 0 /\ merr = ErrNil
  /\ di = 0 /\ pos = 0 /\ derr = ErrNil
  /\ pc = "decode"
  /\ call = NoCall

NextWire == Decode \/ UnmarshalReturn

SpecWire == InitWire /\ [][NextWire]_vars

\* ------------------------------------------------------------------------
\* properties of the encoder's tiers and tags (SpecUnit)
\* ------------------------------------------------------------------------

\* the number of payload or length bytes the smallest tier takes
InSigned(w, b) == w = SignExt(Low(w, b), 64)
InUnsigned(w, b) == IsZeroBits(High(w, 64 - b))
SignedTier(w) ==
  IF InSigned(w, 8) THEN 1 ELSE IF InSigned(w, 16) THEN 2 ELSE IF InSigned(w, 32) THEN 4 ELSE 8
UnsignedTier(w) ==
  IF InUnsigned(w, 8) THEN 1 ELSE IF InUnsigned(w, 16) THEN 2 ELSE IF InUnsigned(w, 32) THEN 4 ELSE 8
LenTier(n) == IF n <= 255 THEN 1 ELSE IF n <= 65535 THEN 2 ELSE 4
\* the tag of a base letter and a tier of k bytes
TagOf(letter, k) ==
  letter + (CASE k = 1 -> 0 [] k = 2 -> 26 [] k = 4 -> 52 [] k = 8 -> 78)
\* the record is the tag of the letter at the tier for n, then n in that
\* many bytes, then rest bytes of payload
LenRecord(letter, n, rest) ==
  /\ buf[1] = TagOf(letter, LenTier(n))
  /\ Len(buf) = 1 + LenTier(n) + rest
  /\ BitsNat(BytesWord(SubSeq(buf, 2, 1 + LenTier(n)))) = n

\* C5: width minimality.  Every integer is written at the smallest of the
\* 1, 2, 4 and 8 byte tiers whose signed (for a signed integer) or unsigned
\* range holds it, whatever the declared width of the value; every Text,
\* Bytes, Sequence and Mapping length is written in 1 byte up to 255, in 2
\* up to 65535 and in 4 above.
C5_WidthMinimality ==
  /\ call.op \in {"encodeInt", "int"} =>
       buf = <<TagOf(chI, SignedTier(call.w))>> \o WordBytes(Low(call.w, 8 * SignedTier(call.w)))
  /\ call.op \in {"encodeUint", "uint"} =>
       buf = <<TagOf(chU, UnsignedTier(call.w))>> \o WordBytes(Low(call.w, 8 * UnsignedTier(call.w)))
  /\ call.op = "encodeString" => LenRecord(chS, call.n, call.n)
  /\ call.op = "encodeBinary" => LenRecord(chB, call.n, call.n)
  /\ call.op = "writeArrayType" => LenRecord(chA, call.n, 0)
  /\ call.op = "writeObjectType" => LenRecord(chO, call.n, 0)

\* a value declared int64 that is written at the 1-byte tier
C5_Witness == call.op = "int" /\ call.n = 64 /\ buf[1] = tInt8 /\ call.w # Fill(64, 0)

\* C6 as stated: 200 as a signed integer is written with the 1-byte tag 0x49
\* and 300 with the 2-byte tag 0x63
C6_Stated ==
  /\ call.op = "encodeInt" /\ call.w = IntWord(200) => buf[1] = 73
  /\ call.op = "encodeInt" /\ call.w = IntWord(300) => buf[1] = 99

\* C6: 200 as a signed integer is written with the 2-byte tag 0x63 (it is
\* above 127), and so is 300
C6_SignedTags ==
  /\ call.op = "encodeInt" /\ call.w = IntWord(200) => buf = <<99, 0, 200>>
  /\ call.op = "encodeInt" /\ call.w = IntWord(300) => buf = <<99, 1, 44>>

C6_Witness == call.op = "encodeInt" /\ call.w = IntWord(200) /\ Len(buf) = 3

\* C7: the tag scheme.  The four width offsets are 0x00, 0x1A, 0x34, 0x4E;
\* the 25 tags have the values of the wire-format table, each is its base
\* letter plus the offset of its tier, they are pairwise distinct and below
\* 256; and every record the encoder writes starts with one of them.
C7_TagScheme ==
  /\ <<t8, t16, t32, t64>> = <<0, 26, 52, 78>>
  /\ TagList = << 90, 84, 70, 73, 99, 125, 151, 85, 111, 137, 163, 120, 146,
                  83, 109, 135, 65, 91, 117, 79, 105, 131, 66, 92, 118 >>
  /\ <<tNil - t8, tTrue - t8, tFalse - t8>> = <<90, 84, 70>>
  /\ <<tInt8 - t8, tInt16 - t16, tInt32 - t32, tInt64 - t64>> = <<73, 73, 73, 73>>
  /\ <<tUint8 - t8, tUint16 - t16, tUint32 - t32, tUint64 - t64>> = <<85, 85, 85, 85>>
  /\ <<tFloat32 - t32, tFloat64 - t64>> = <<68, 68>>
  /\ <<tString8 - t8, tString16 - t16, tString32 - t32>> = <<83, 83, 83>>
  /\ <<tArray8 - t8, tArray16 - t16, tArray32 - t32>> = <<65, 65, 65>>
  /\ <<tObject8 - t8, tObject16 - t16, tObject32 - t32>> = <<79, 79, 79>>
  /\ <<tBinary8 - t8, tBinary16 - t16, tBinary32 - t32>> = <<66, 66, 66>>
  /\ \A i, j \in 1..Len(TagList) : i # j => TagList[i] # TagList[j]
  /\ \A i \in 1..Len(TagList) : TagList[i] \in 0..255
  /\ Len(TagList) = 25
  /\ call # NoCall => \E i \in 1..Len(TagList) : buf[1] = TagList[i]

\* an 8-byte unsigned integer was written: the tag with the largest sum
C7_Witness == call.op = "encodeUint" /\ buf[1] = 163 /\ Len(buf) = 9


\* ------------------------------------------------------------------------
\* the round trip Unmarshal(Marshal(v))
\* ------------------------------------------------------------------------

\* the types built from booleans, integers, sequences, mappings and records
RECURSIVE Plain(_)
Plain(t) ==
  CASE t.k \in {"bool", "int", "uint"} -> TRUE
    [] t.k \in {"slice", "array"} -> Plain(t.elem)
    [] t.k = "map" -> Plain(t.key) /\ Plain(t.elem)
    [] t.k = "struct" -> \A i \in 1..Len(t.fields) : Plain(t.fields[i].t)
    [] OTHER -> FALSE

\* Marshal and Unmarshal have returned, and every destination was a pointer
\* to the zero value of the type of its value
ReturnedFromZero == pc = "done" /\ dst0 = Dests(vv, FALSE)

\* no error, and destination i holds value i, for every i
AllRestored ==
  /\ merr = ErrNil /\ derr = ErrNil
  /\ \A i \in 1..Len(vv) : dst[i] = PtrV(TypeOf(vv[i]), <<vv[i]>>)

\* C1: a value built from booleans, integers of every width, sequences,
\* mappings and records of these comes back from Unmarshal(Marshal(v)) into
\* a zero destination of its type without an error and equal to v.
C1_RoundTrip ==
  ReturnedFromZero /\ Len(vv) = 1 /\ Plain(TypeOf(vv[1])) => AllRestored

\* C2: every string and every byte slice, the empty one too, comes back
\* from Unmarshal(Marshal(v)) without an error and equal to v.
C2_TextRoundTrip ==
  ReturnedFromZero /\ Len(vv) = 1 /\ TypeOf(vv[1]) \in {StringT, ByteSliceT} => AllRestored

\* C3: every finite float64 comes back from Unmarshal(Marshal(x)) into a
\* float64 equal to x, and every finite float32 into a float32.
C3_FloatRoundTrip ==
  ReturnedFromZero /\ Len(vv) = 1 /\ vv[1].k = "float" => AllRestored

\* C4: Marshal(v1, ..., vn) returns the records of Marshal(v1), ...,
\* Marshal(vn) one after the other and nothing else, and Unmarshal of these
\* bytes into n destinations of the types of the values fills destination i
\* with vi.
C4_Batch ==
  ReturnedFromZero /\ merr = ErrNil =>
    /\ \E r \in EncodeAll(vv, [i \in 1..Len(vv) |-> FALSE]) : r.err = ErrNil /\ data = r.out
    /\ AllRestored


\* ------------------------------------------------------------------------
\* a number on the wire decoded into a numeric destination (SpecWire)
\* ------------------------------------------------------------------------

\* the record at the start of the data: the kind of its number, its payload,
\* and the number widened to 64 bits as its kind widens it
WireKind ==
  CASE data[1] \in {tInt8, tInt16, tInt32, tInt64} -> "int"
    [] data[1] \in {tUint8, tUint16, tUint32, tUint64} -> "uint"
    [] data[1] \in {tFloat32, tFloat64} -> "float"
WirePayload == BytesWord(SubSeq(data, 2, Len(data)))
WireWord ==
  CASE WireKind = "int" -> SignExt(WirePayload, 64)
    [] WireKind = "uint" -> ZeroExt(WirePayload, 64)
    [] data[1] = tFloat32 -> Float64Of(WirePayload)
    [] data[1] = tFloat64 -> WirePayload

\* the destination: its type, and what it holds after the record was decoded
DestType == dst0[1].elem
DestValue == dst[1].p[1]
Decoded == pc = "decode" /\ di = 1

\* the wire number converted to the kind of the destination, at 64 bits, as
\* the conversions int64(x), uint64(x) and float64(x) of Go do
Converted ==
  CASE DestType.k = "int" -> IF WireKind = "float" THEN FloatToInt(impl, WireWord) ELSE WireWord
    [] DestType.k = "uint" -> IF WireKind = "float" THEN FloatToUint(impl, WireWord) ELSE WireWord
    [] DestType.k = "float" ->
         CASE WireKind = "int" -> IntToFloat(WireWord)
           [] WireKind = "uint" -> UintToFloat(WireWord)
           [] WireKind = "float" -> WireWord

\* the converted number fits the width of the destination
ConvertedFits ==
  CASE DestType.k = "int" -> InSigned(Converted, DestType.bits)
    [] DestType.k = "uint" -> InUnsigned(Converted, DestType.bits)
    [] DestType.k = "float" ->
         \/ DestType.bits = 64
         \/ FLe(Abs(Converted), MaxFloat32) \/ IsInf(Converted) \/ IsNaN(Converted)

\* the destination type holds the integer on the wire exactly
HoldsWireInteger ==
  CASE DestType.k = "int" /\ WireKind = "int" -> InSigned(WireWord, DestType.bits)
    [] DestType.k = "int" /\ WireKind = "uint" -> InUnsigned(WireWord, DestType.bits - 1)
    [] DestType.k = "uint" /\ WireKind = "int" ->
         WireWord[1] = 0 /\ InUnsigned(WireWord, DestType.bits)
    [] DestType.k = "uint" /\ WireKind = "uint" -> InUnsigned(WireWord, DestType.bits)

\* C8 as stated, for the integers on the wire and the integer destinations:
\* decoding succeeds exactly when the destination type holds the number, the
\* destination is then equal to it, and in every other case decoding fails
\* with a decode type error.
C8_Stated ==
  Decoded /\ WireKind # "float" /\ DestType.k # "float" =>
    IF HoldsWireInteger THEN derr = ErrNil /\ DestValue.n = WireWord
    ELSE derr = ErrDecoderType

\* C8: the number on the wire is converted to the kind of the destination by
\* Go's conversion (an integer keeps its 64 bits between int64 and uint64, a
\* float is truncated to an integer, an integer is rounded to a float64);
\* decoding succeeds exactly when the converted number fits the width of the
\* destination, which then holds the converted number (rounded to float32 in
\* a float32); otherwise it fails with a decode type error and the
\* destination keeps its value.
C8_Conversion ==
  Decoded =>
    /\ IF ConvertedFits
       THEN /\ derr = ErrNil
            /\ DestValue.k = DestType.k /\ DestValue.bits = DestType.bits
            /\ DestType.k \in {"int", "uint"} => DestValue.n = Converted
            /\ DestType = FloatT(64) => DestValue.f = Converted
            /\ DestType = FloatT(32) => DestValue.f = Float64Of(Float32Of(Converted))
       ELSE derr = ErrDecoderType /\ dst = dst0
    \* 1.5 and -1.5 into a signed destination: 1 and -1
    /\ data = <<tFloat64, 63, 248, 0, 0, 0, 0, 0, 0>> /\ DestType.k = "int" =>
         derr = ErrNil /\ DestValue.n = IntWord(1)
    /\ data = <<tFloat64, 191, 248, 0, 0, 0, 0, 0, 0>> /\ DestType.k = "int" =>
         derr = ErrNil /\ DestValue.n = IntWord(-1)
    \* 256 into an 8-bit destination, 255 into an int8: a decode type error
    /\ data \in {<<tInt16, 1, 0>>, <<tUint16, 1, 0>>} /\ DestType.k # "float" /\ DestType.bits = 8 =>
         derr = ErrDecoderType
    /\ data = <<tUint8, 255>> /\ DestType = IntT(8) => derr = ErrDecoderType
    \* 2^24 + 1 into a float32: 2^24
    /\ data = <<tInt32, 1, 0, 0, 1>> /\ DestType = FloatT(32) =>
         derr = ErrNil /\ DestValue.f = MkFloat(0, 1047, Fill(52, 0))

\* 1.5 was decoded into an int8, which holds 1
C8_Witness ==
  /\ Decoded /\ data = <<tFloat64, 63, 248, 0, 0, 0, 0, 0, 0>> /\ DestType = IntT(8)
  /\ derr = ErrNil /\ DestValue = IntV(8, IntWord(1))

\* C9: a uint64 on the wire decoded into an int64 gives no error and the
\* int64 of the same 64 bits (the largest uint64 gives -1); an int8, int16,
\* int32 or int64 on the wire decoded into a uint64 gives no error and the
\* uint64 of the sign-extended 64 bits.
C9_Reinterpreted ==
  /\ Decoded /\ data[1] = tUint64 /\ DestType = IntT(64) =>
       derr = ErrNil /\ dst[1] = PtrV(IntT(64), <<IntV(64, WirePayload)>>)
  /\ Decoded /\ data = <<tUint64, 255, 255, 255, 255, 255, 255, 255, 255>> /\ DestType = IntT(64) =>
       DestValue.n = IntWord(-1)
  /\ Decoded /\ WireKind = "int" /\ DestType = UintT(64) =>
       derr = ErrNil /\ dst[1] = PtrV(UintT(64), <<UintV(64, SignExt(WirePayload, 64))>>)

\* the largest uint64 was decoded into an int64, which holds -1
C9_Witness ==
  /\ Decoded /\ data = <<tUint64, 255, 255, 255, 255, 255, 255, 255, 255>>
  /\ derr = ErrNil /\ dst[1] = PtrV(IntT(64), <<IntV(64, Fill(64, 1))>>)


\* ------------------------------------------------------------------------
\* a record decoded into a destination in use
\* ------------------------------------------------------------------------

\* the fields of the record s that encodeObject leaves out, and those it
\* writes
Unmentioned(s) == {j \in 1..Len(s.fields) : skipValue(s.fields[j].v)}
Mentioned(s) == {j \in 1..Len(s.fields) : ~ skipValue(s.fields[j].v)}

\* Marshal has written the record vv[i] with some of its fields left out, and
\* Unmarshal has returned from decoding it into a record whose fields all
\* held a value other than zero
SubsetDecoded(i) ==
  /\ pc = "done" /\ merr = ErrNil /\ di >= i
  /\ i \in 1..Len(vv) /\ vv[i].k = "struct"
  /\ Unmentioned(vv[i]) # {}
  /\ dst0[i].p[1] = Dirty(TypeOf(vv[i]))

\* the decoding of record i returned no error
DecodedOk(i) == di > i \/ (di = i /\ derr = ErrNil)

\* C10 as stated: decoding a Mapping whose keys are some of the fields of
\* the destination record succeeds and leaves every field that is not on the
\* wire at the value it held before the call.
C10_Stated ==
  \A i \in 1..Len(vv) :
    SubsetDecoded(i) /\ (\A j \in Mentioned(vv[i]) : vv[i].fields[j].exported) =>
      /\ DecodedOk(i)
      /\ \A j \in Unmentioned(vv[i]) : dst[i].p[1].fields[j].v = dst0[i].p[1].fields[j].v

\* C10: decoding a Mapping whose keys are some of the fields of the
\* destination record and name exported fields only succeeds (the values
\* Marshal wrote decode into their fields), and every field that is not on
\* the wire, exported or not, then holds the zero value of its type, whatever
\* it held before the call.
C10_UnmentionedZero ==
  \A i \in 1..Len(vv) :
    SubsetDecoded(i) =>
      /\ (\A j \in Mentioned(vv[i]) : vv[i].fields[j].exported) => DecodedOk(i)
      /\ DecodedOk(i) =>
           \A j \in Unmentioned(vv[i]) :
             /\ dst[i].p[1].fields[j].v = Zero(TypeOf(vv[i]).fields[j].t)
             /\ dst[i].p[1].fields[j].v # dst0[i].p[1].fields[j].v

\* a record with B and C left out was decoded into a record in use: B, which
\* held -1, holds 0
C10_Witness ==
  /\ SubsetDecoded(1) /\ TypeOf(vv[1]) = TA /\ Mentioned(vv[1]) = {1} /\ DecodedOk(1)
  /\ dst0[1].p[1].fields[2].v = IntV(16, Fill(64, 1))
  /\ dst[1].p[1].fields[2].v = IntV(16, Fill(64, 0))


\* ------------------------------------------------------------------------
\* Marshal of one kind of value and Unmarshal into another kind, or into
\* more or fewer destinations than values
\* ------------------------------------------------------------------------

\* the texts decoded into a bool
BoolTexts ==
  { <<116, 114, 117, 101>>,
    <<102, 97, 108, 115, 101>>,
    <<49>>,
    <<116>>,
    <<84>>,
    <<84, 82, 85, 69>>,
    <<84, 114, 117, 101>>,
    <<48>>,
    <<102>>,
    <<70>>,
    <<70, 65, 76, 83, 69>>,
    <<70, 97, 108, 115, 101>>,
    <<121, 101, 115>>,
    <<116, 82, 85, 69>>,
    <<116, 114, 117, 101, 32>>,
    <<110, 111>>,
    <<50>>,
    <<84, 114, 85, 101>>,
    <<102, 102>> }

\* the decimal integers decoded from text: the text, its sign, and its
\* magnitude as 9 bytes, the first byte first
IntTexts ==
  { [s |-> <<45, 49, 50, 51, 52, 53, 54, 55>>, sign |-> "-", mag |-> <<0, 0, 0, 0, 0, 0, 18, 214, 135>>],
    [s |-> <<49, 50, 51, 52, 53, 54, 55>>, sign |-> "", mag |-> <<0, 0, 0, 0, 0, 0, 18, 214, 135>>],
    [s |-> <<48>>, sign |-> "", mag |-> <<0, 0, 0, 0, 0, 0, 0, 0, 0>>],
    [s |-> <<45, 48>>, sign |-> "-", mag |-> <<0, 0, 0, 0, 0, 0, 0, 0, 0>>],
    [s |-> <<49>>, sign |-> "", mag |-> <<0, 0, 0, 0, 0, 0, 0, 0, 1>>],
    [s |-> <<45, 49>>, sign |-> "-", mag |-> <<0, 0, 0, 0, 0, 0, 0, 0, 1>>],
    [s |-> <<49, 50, 55>>, sign |-> "", mag |-> <<0, 0, 0, 0, 0, 0, 0, 0, 127>>],
    [s |-> <<49, 50, 56>>, sign |-> "", mag |-> <<0, 0, 0, 0, 0, 0, 0, 0, 128>>],
    [s |-> <<45, 49, 50, 56>>, sign |-> "-", mag |-> <<0, 0, 0, 0, 0, 0, 0, 0, 128>>],
    [s |-> <<45, 49, 50, 57>>, sign |-> "-", mag |-> <<0, 0, 0, 0, 0, 0, 0, 0, 129>>],
    [s |-> <<50, 53, 53>>, sign |-> "", mag |-> <<0, 0, 0, 0, 0, 0, 0, 0, 255>>],
    [s |-> <<50, 53, 54>>, sign |-> "", mag |-> <<0, 0, 0, 0, 0, 0, 0, 1, 0>>],
    [s |-> <<51, 50, 55, 54, 55>>, sign |-> "", mag |-> <<0, 0, 0, 0, 0, 0, 0, 127, 255>>],
    [s |-> <<51, 50, 55, 54, 56>>, sign |-> "", mag |-> <<0, 0, 0, 0, 0, 0, 0, 128, 0>>],
    [s |-> <<45, 51, 50, 55, 54, 56>>, sign |-> "-", mag |-> <<0, 0, 0, 0, 0, 0, 0, 128, 0>>],
    [s |-> <<45, 51, 50, 55, 54, 57>>, sign |-> "-", mag |-> <<0, 0, 0, 0, 0, 0, 0, 128, 1>>],
    [s |-> <<54, 53, 53, 51, 53>>, sign |-> "", mag |-> <<0, 0, 0, 0, 0, 0, 0, 255, 255>>],
    [s |-> <<54, 53, 53, 51, 54>>, sign |-> "", mag |-> <<0, 0, 0, 0, 0, 0, 1, 0, 0>>],
    [s |-> <<50, 49, 52, 55, 52, 56, 51, 54, 52, 55>>, sign |-> "", mag |-> <<0, 0, 0, 0, 0, 127, 255, 255, 255>>],
    [s |-> <<50, 49, 52, 55, 52, 56, 51, 54, 52, 56>>, sign |-> "", mag |-> <<0, 0, 0, 0, 0, 128, 0, 0, 0>>],
    [s |-> <<45, 50, 49, 52, 55, 52, 56, 51, 54, 52, 56>>, sign |-> "-", mag |-> <<0, 0, 0, 0, 0, 128, 0, 0, 0>>],
    [s |-> <<45, 50, 49, 52, 55, 52, 56, 51, 54, 52, 57>>, sign |-> "-", mag |-> <<0, 0, 0, 0, 0, 128, 0, 0, 1>>],
    [s |-> <<52, 50, 57, 52, 57, 54, 55, 50, 57, 53>>, sign |-> "", mag |-> <<0, 0, 0, 0, 0, 255, 255, 255, 255>>],
    [s |-> <<52, 50, 57, 52, 57, 54, 55, 50, 57, 54>>, sign |-> "", mag |-> <<0, 0, 0, 0, 1, 0, 0, 0, 0>>],
    [s |-> <<57, 50, 50, 51, 51, 55, 50, 48, 51, 54, 56, 53, 52, 55, 55, 53, 56, 48, 55>>, sign |-> "", mag |-> <<0, 127, 255, 255, 255, 255, 255, 255, 255>>],
    [s |-> <<57, 50, 50, 51, 51, 55, 50, 48, 51, 54, 56, 53, 52, 55, 55, 53, 56, 48, 56>>, sign |-> "", mag |-> <<0, 128, 0, 0, 0, 0, 0, 0, 0>>],
    [s |-> <<45, 57, 50, 50, 51, 51, 55, 50, 48, 51, 54, 56, 53, 52, 55, 55, 53, 56, 48, 56>>, sign |-> "-", mag |-> <<0, 128, 0, 0, 0, 0, 0, 0, 0>>],
    [s |-> <<45, 57, 50, 50, 51, 51, 55, 50, 48, 51, 54, 56, 53, 52, 55, 55, 53, 56, 48, 57>>, sign |-> "-", mag |-> <<0, 128, 0, 0, 0, 0, 0, 0, 1>>],
    [s |-> <<49, 56, 52, 52, 54, 55, 52, 52, 48, 55, 51, 55, 48, 57, 53, 53, 49, 54, 49, 53>>, sign |-> "", mag |-> <<0, 255, 255, 255, 255, 255, 255, 255, 255>>],
    [s |-> <<49, 56, 52, 52, 54, 55, 52, 52, 48, 55, 51, 55, 48, 57, 53, 53, 49, 54, 49, 54>>, sign |-> "", mag |-> <<1, 0, 0, 0, 0, 0, 0, 0, 0>>],
    [s |-> <<48, 48, 48, 49, 50>>, sign |-> "", mag |-> <<0, 0, 0, 0, 0, 0, 0, 0, 12>>],
    [s |-> <<43, 49>>, sign |-> "+", mag |-> <<0, 0, 0, 0, 0, 0, 0, 0, 1>>],
    [s |-> <<43, 50, 53, 53>>, sign |-> "+", mag |-> <<0, 0, 0, 0, 0, 0, 0, 0, 255>>],
    [s |-> <<43, 57, 50, 50, 51, 51, 55, 50, 48, 51, 54, 56, 53, 52, 55, 55, 53, 56, 48, 56>>, sign |-> "+", mag |-> <<0, 128, 0, 0, 0, 0, 0, 0, 0>>] }
\* texts that are not a decimal integer
BadIntTexts ==
  { <<>>,
    <<97>>,
    <<45>>,
    <<43>>,
    <<49, 97>>,
    <<97, 49>>,
    <<49, 46, 53>>,
    <<32, 49>>,
    <<49, 32>>,
    <<48, 120, 49, 48>>,
    <<49, 95, 48, 48, 48>>,
    <<45, 45, 49>>,
    <<49, 101, 51>>,
    <<49, 50, 45>>,
    <<217, 161>> }

\* the types of the tests with hooks, the struct with no field, and a struct
\* with the fields P *int64, I interface{}, H chan int, R [2]bool and
\* N struct{ A bool }
TestInputMarshaler == HookedT("text", <<Field(<<120>>, FALSE, StringT)>>)
TestInputBrokenMarshaler == HookedT("broken", <<>>)
TEmpty == StructT(<<>>)
TE == StructT(<<Field(<<80>>, TRUE, PtrT(IntT(64))), Field(<<73>>, TRUE, IfaceT(0)),
                Field(<<72>>, TRUE, ChanT), Field(<<82>>, TRUE, ArrayT(BoolT, 2)),
                Field(<<78>>, TRUE, StructT(<<Field(<<65>>, TRUE, BoolT)>>))>>)
\* map[string]int64, with keys that name a field of TA and keys that do not
TM == MapT(StringT, IntT(64))
CrossMaps ==
  {MapV(StringT, IntT(64), {<<StringV(k), IntV(64, IntWord(1))>> : k \in ks})
   : ks \in {{}, {<<66>>}, {<<98>>}, {<<66>>, <<90>>}, {<<65, 65>>}}}

\* the values given to Marshal alone
CrossValues ==
  {StringV(s) : s \in BoolTexts \cup BadIntTexts} \cup {StringV(r.s) : r \in IntTexts}
  \cup Samples(TA) \cup Samples(TB) \cup Samples(TE) \cup Samples(TEmpty) \cup CrossMaps
  \cup {HookedV("text", <<[name |-> <<120>>, exported |-> FALSE, v |-> StringV(s)]>>)
        : s \in {<<>>, <<97>>, <<97, 49>>}}
  \cup {HookedV("broken", <<>>)}
  \cup {BytesValue(s) : s \in {<<>>, <<65>>, <<0, 90>>}}
  \cup {BoolV(TRUE), IntV(64, IntWord(1)), PtrV(TA, <<>>), ChanV}
  \cup {BoolV(FALSE), IntV(32, IntWord(-70000)), UintV(8, NatBits(7, 64)),
        UintV(64, Fill(64, 1)), FloatV(64, MkFloat(0, 1023, Fill(52, 0))),
        FloatV(64, MkFloat(1, 2000, Fill(52, 0))), SliceV(BoolT, <<BoolV(TRUE), BoolV(FALSE)>>),
        SliceV(StringT, <<>>), ArrayV(IntT(8), <<IntV(8, IntWord(1)), IntV(8, IntWord(2))>>),
        MapV(UintT(8), BoolT, {<<UintV(8, NatBits(1, 64)), BoolV(TRUE)>>}),
        MapV(ArrayT(BoolT, 1), BoolT, {<<ArrayV(BoolT, <<BoolV(TRUE)>>), BoolV(TRUE)>>}),
        SliceV(StringT, <<StringV(<<97>>), StringV(<<>>)>>),
        PtrV(IntT(64), <<IntV(64, IntWord(-5))>>)}

\* the types of the destinations
CrossTypes ==
  {BoolT, StringT, ByteSliceT, TA, TB, TE, TEmpty, TM, TestInputMarshaler,
   TestInputBrokenMarshaler, PtrT(TestInputMarshaler), IfaceT(0)}
  \cup {IfaceT(1), FloatT(64), ArrayT(BoolT, 2), SliceT(IntT(8)), ChanT}
  \cup {IntT(b) : b \in Widths} \cup {UintT(b) : b \in Widths}

\* the values and the types of the calls with several values or destinations
FewValues == {BoolV(TRUE), StringV(<<97>>), StringV(<<>>), IntV(64, IntWord(300))}
FewTypes == {BoolT, StringT, IntT(8)}
MaxRecords == 2

\* pointers to a zero value or to a value in use of each of the types ts
Pointers(ts) == UNION {{PtrV(t, <<Zero(t)>>), PtrV(t, <<Dirty(t)>>)} : t \in ts}

InitCross ==
  /\ \/ /\ vv \in {<<v>> : v \in CrossValues}
        /\ dst \in {<<p>> : p \in Pointers(CrossTypes)}
     \/ /\ vv \in SeqsUpTo(FewValues, MaxRecords) \ {<<>>}
        /\ dst \in SeqsUpTo(Pointers(FewTypes), MaxRecords) \ {<<>>}
  /\ dst0 = dst
  /\ impl \in {"amd64"}
  /\ buf = <<>> /\ ei = 0 /\ merr = ErrNil
  /\ data = <<>> /\ di = 0 /\ pos = 0 /\ derr = ErrNil
  /\ pc = "encode"
  /\ call = NoCall

SpecCross == InitCross /\ [][Next]_vars

\* ------------------------------------------------------------------------
\* Unmarshal of bytes that start with a byte that is no tag
\* ------------------------------------------------------------------------

RawTypes == {BoolT, IntT(64), StringT, SliceT(BoolT), TM, TA, PtrT(IntT(64)), IfaceT(0)}

InitRaw ==
  /\ vv = <<>>
  /\ \E b \in 0..255, rest \in {<<>>, <<tTrue>>, <<tInt8, 7>>} :
       /\ \A i \in 1..Len(TagList) : TagList[i] # b
       /\ data = <<b>> \o rest
  /\ \/ dst \in {<<p>> : p \in Pointers(RawTypes)}
     \/ dst \in {<<p, q>> : p \in Pointers({IntT(64)}), q \in Pointers({BoolT, IntT(64)})}
  /\ dst0 = dst
  /\ impl \in {"amd64"}
  /\ buf = <<>> /\ ei = 0 /\ merr = ErrNil
  /\ di = 0 /\ pos = 0 /\ derr = ErrNil
  /\ pc = "decode"
  /\ call = NoCall

SpecRaw == InitRaw /\ [][NextWire]_vars


\* ------------------------------------------------------------------------
\* a Mapping decoded into a record
\* ------------------------------------------------------------------------

\* the keys of the Mapping that Marshal writes for the hook-free record or
\* the map[string]int64 v
WireKeys(v) ==
  IF v.k = "struct" THEN {v.fields[j].name : j \in Mentioned(v)}
  ELSE {e[1].s : e \in v.kv}
FieldNames(t) == {t.fields[j].name : j \in 1..Len(t.fields)}

\* Marshal has written one Mapping, and Unmarshal has returned from decoding
\* it into a record
MappingIntoRecord ==
  /\ pc = "done" /\ Len(vv) = 1 /\ Len(dst) = 1 /\ merr = ErrNil
  /\ \/ vv[1].k = "struct" /\ vv[1].hooks = "none"
     \/ TypeOf(vv[1]) = TM
  /\ dst0[1].elem.k = "struct"

\* C11: strict field matching.  Decoding a Mapping into a record fails with a
\* decode type error when a key on the wire names no field of the record,
\* and the record keeps the value it had.
C11_StrictFields ==
  MappingIntoRecord /\ ~ (WireKeys(vv[1]) \subseteq FieldNames(dst0[1].elem)) =>
    derr = ErrDecoderType /\ dst = dst0

\* the map with the keys B and Z was decoded into a TA in use: Z names no
\* field of TA
C11_Witness ==
  /\ MappingIntoRecord /\ TypeOf(vv[1]) = TM /\ WireKeys(vv[1]) = {<<66>>, <<90>>}
  /\ dst0[1] = PtrV(TA, <<Dirty(TA)>>)
  /\ derr = ErrDecoderType /\ dst = dst0


\* C12: a key on the wire that names a field of the record which is not
\* exported is decoded into that field: a hook-free record with a non-empty
\* unexported field, which the encoder writes, decodes back without an error
\* into a record of its type, and the field holds the value written.
C12_UnexportedDecoded ==
  /\ MappingIntoRecord /\ vv[1].k = "struct" /\ dst0[1].elem = TypeOf(vv[1])
  /\ \E j \in Mentioned(vv[1]) : ~ vv[1].fields[j].exported
  => /\ derr = ErrNil
     /\ \A j \in Mentioned(vv[1]) : dst[1].p[1].fields[j].v = vv[1].fields[j].v


\* the value is empty: false, a zero number, an empty text, byte slice,
\* sequence or mapping, a nil pointer or interface, a record or a fixed array
\* whose every member is empty, or a value of a kind with no representation
RECURSIVE IsEmpty(_)
IsEmpty(v) ==
  CASE v.k = "bool" -> v.b = FALSE
    [] v.k \in {"int", "uint"} -> v.n = Fill(64, 0)
    [] v.k = "float" -> v.f \in {Fill(64, 0), <<1>> \o Fill(63, 0)}
    [] v.k = "string" -> v.s = <<>>
    [] v.k = "slice" -> v.items = <<>>
    [] v.k = "map" -> v.kv = {}
    [] v.k \in {"ptr", "iface"} -> v.p = <<>>
    [] v.k = "array" -> \A i \in 1..Len(v.items) : IsEmpty(v.items[i])
    [] v.k = "struct" -> \A j \in 1..Len(v.fields) : IsEmpty(v.fields[j].v)
    [] v.k = "chan" -> TRUE
NonEmptyFields(v) == {j \in 1..Len(v.fields) : ~ IsEmpty(v.fields[j].v)}

\* Marshal has returned the bytes of one hook-free record
RecordWritten ==
  /\ pc \in {"decode", "done"} /\ Len(vv) = 1 /\ vv[1].k = "struct" /\ vv[1].hooks = "none"

MapOverwritten(i, before) ==
  /\ pc = "done" /\ merr = ErrNil /\ i \in 1..Len(vv) /\ vv[i].k = "map"
  /\ i <= Len(dst) /\ DecodedOk(i)
  /\ dst0[i] = PtrV(TypeOf(vv[i]), <<MapV(vv[i].key, vv[i].elem, before)>>)

\* C14: after a Mapping was decoded without an error into a map that held
\* entries, the map holds exactly the pairs of the wire: an entry of before
\* whose key is not on the wire is gone, and one whose key is on the wire has
\* the value of the wire.
C14_MapOverwrite ==
  \A i \in 1..Len(vv) :
    vv[i].k = "map" /\ MapOverwritten(i, Dirty(TypeOf(vv[i])).kv) =>
      /\ dst[i].p[1].kv = vv[i].kv
      /\ \A e \in dst0[i].p[1].kv :
           (\A f \in vv[i].kv : f[1] # e[1]) => \A g \in dst[i].p[1].kv : g[1] # e[1]

\* a map without the key 255 was decoded into a map[uint8]bool that held
\* 255: true, and the key 255 is gone
C14_Witness ==
  /\ MapOverwritten(1, {<<UintV(8, ZeroExt(Fill(8, 1), 64)), BoolV(TRUE)>>})
  /\ vv[1].kv = {<<UintV(8, Fill(64, 0)), BoolV(TRUE)>>}
  /\ dst[1].p[1].kv = vv[1].kv


\* ------------------------------------------------------------------------
\* a byte that is no tag (SpecRaw)
\* ------------------------------------------------------------------------

\* C15: unknown-tag tolerance.  Decoding a record that starts with a byte
\* that is none of the 25 tags returns no error, reads that one byte and no
\* more, and leaves the destination as it was; the next destination is
\* decoded from the byte after it.
C15_UnknownTag ==
  /\ (\A i \in 1..Len(TagList) : TagList[i] # data[1]) /\ di = 1 =>
       derr = ErrNil /\ pos = 1 /\ dst = dst0
  /\ /\ (\A i \in 1..Len(TagList) : TagList[i] # data[1]) /\ di = 2
     /\ SubSeq(data, 2, Len(data)) = <<tInt8, 7>> /\ dst0[2].elem = IntT(64)
     => /\ derr = ErrNil /\ pos = 3
        /\ dst = <<dst0[1], PtrV(IntT(64), <<IntV(64, IntWord(7))>>)>>

\* FF 49 07 was decoded into two int64 in use: the first kept -1, the second
\* holds 7
C15_Witness ==
  /\ data = <<255, tInt8, 7>> /\ di = 2 /\ derr = ErrNil /\ pos = 3
  /\ dst0[1] = PtrV(IntT(64), <<IntV(64, Fill(64, 1))>>)
  /\ dst = <<dst0[1], PtrV(IntT(64), <<IntV(64, IntWord(7))>>)>>


\* ------------------------------------------------------------------------
\* a Text decoded into a bool or an integer (SpecCross)
\* ------------------------------------------------------------------------

\* Unmarshal has returned after it decoded record i, the text vv[i], into
\* destination i of type t: the records before it were decoded without an
\* error
TextInto(i, t) ==
  /\ pc = "done" /\ merr = ErrNil /\ i \in 1..Len(vv) /\ i <= Len(dst) /\ di >= i
  /\ vv[i].k = "string" /\ dst0[i].elem = t
  /\ \A j \in 1..(i - 1) : TypeOf(vv[j]) = dst0[j].elem
\* the error of the decoding of record i
ErrAt(i) == IF di > i THEN ErrNil ELSE derr
\* record i is the last of the stream
LastRecord(i) == i = Len(vv)

Pow2Word(e) == [i \in 1..72 |-> IF i = 72 - e THEN 1 ELSE 0]
\* the decimal integer of row r of IntTexts fits a signed integer of b bits:
\* it is at least -2^(b-1) and below 2^(b-1)
FitsSigned(r, b) ==
  IF r.sign = "-" THEN ULe(BytesWord(r.mag), Pow2Word(b - 1))
  ELSE ULt(BytesWord(r.mag), Pow2Word(b - 1))
\* it fits an unsigned integer of b bits: it has no minus sign and is below 2^b
FitsUnsigned(r, b) == r.sign # "-" /\ ULt(BytesWord(r.mag), Pow2Word(b))
\* the 64-bit word of the integer of row r
RowWord(r) ==
  IF r.sign = "-" THEN Neg(BytesWord(Tail(r.mag))) ELSE BytesWord(Tail(r.mag))
\* the texts of the model that are not a decimal integer
NotDecimal == BadIntTexts \cup (BoolTexts \ {<<48>>, <<49>>, <<50>>})

\* what C17 states of record i, decoded into an integer of kind k and b bits:
\* the number of the text when it fits, a decode type error and the
\* destination as it was otherwise (a text with a plus sign is left open for
\* an unsigned destination)
IntTextOutcome(i, k, b) ==
  /\ \A r \in IntTexts :
       vv[i].s = r.s /\ ~(k = "uint" /\ r.sign = "+") =>
         IF (IF k = "int" THEN FitsSigned(r, b) ELSE FitsUnsigned(r, b))
         THEN ErrAt(i) = ErrNil /\ dst[i].p[1] = [k |-> k, bits |-> b, n |-> RowWord(r)]
         ELSE ErrAt(i) = ErrDecoderType /\ dst[i] = dst0[i]
  /\ vv[i].s \in NotDecimal => ErrAt(i) = ErrDecoderType /\ dst[i] = dst0[i]

\* C17: a Text that holds a decimal integer decodes into a signed or an
\* unsigned integer as that number when it fits the width of the integer; a
\* text that is not a decimal integer, or whose number does not fit, or that
\* is negative for an unsigned integer, fails with a decode type error.
C17_Stated ==
  \A i \in 1..Len(vv) : \A b \in Widths :
    /\ TextInto(i, IntT(b)) => IntTextOutcome(i, "int", b)
    /\ TextInto(i, UintT(b)) => IntTextOutcome(i, "uint", b)

\* the same for every text but the empty text whose record ends the stream,
\* which fails with io.EOF and leaves the integer as it was
C17_ExceptEmptyLast ==
  \A i \in 1..Len(vv) : \A b \in Widths : \A k \in {"int", "uint"} :
    TextInto(i, [k |-> k, bits |-> b]) =>
      IF vv[i].s = <<>> /\ LastRecord(i)
      THEN ErrAt(i) = ErrEOF /\ dst[i] = dst0[i]
      ELSE IntTextOutcome(i, k, b)

\* the text -1234567 was decoded into an int32 in use: it holds -1234567
C17_Decoded ==
  /\ TextInto(1, IntT(32)) /\ vv[1].s = <<45, 49, 50, 51, 52, 53, 54, 55>>
  /\ dst0[1].p[1] # Zero(IntT(32))
  /\ ErrAt(1) = ErrNil
  /\ dst[1].p[1] = IntV(32, Neg(BytesWord(<<0, 0, 0, 0, 0, 18, 214, 135>>)))


\* ------------------------------------------------------------------------
\* records with a to-bytes or a from-bytes hook (SpecCross)
\* ------------------------------------------------------------------------

\* Marshal was given the one value v, a record with the hooks h
MarshalOfHooked(h) ==
  /\ pc # "encode" /\ Len(vv) = 1 /\ vv[1].k = "struct" /\ vv[1].hooks = h
\* what the to-bytes hook of the tests returns for the texts of the model:
\* the text in upper case
UpperOf(s) ==
  CASE s = <<>> -> <<>>
    [] s = <<97>> -> <<65>>
    [] s = <<97, 49>> -> <<65, 49>>
\* what the from-bytes hook of the tests stores for a payload: the payload
\* in lower case
LowerOf(s) ==
  CASE s = <<>> -> <<>>
    [] s = <<65>> -> <<97>>
    [] s = <<65, 49>> -> <<97, 49>>
    [] s = <<0, 90>> -> <<0, 122>>
\* Unmarshal has returned for data that are one Bytes record of a payload
\* below 256 bytes, and for one destination, a record with the hooks h
UnmarshalIntoHooked(h) ==
  /\ pc = "done" /\ merr = ErrNil /\ Len(dst) = 1
  /\ Len(data) >= 2 /\ data[1] = tBinary8 /\ data[2] = Len(data) - 2
  /\ dst0[1].elem.k = "struct" /\ dst0[1].elem.hooks = h
\* the payload of that record
Payload == SubSeq(data, 3, Len(data))

\* the encoding half of C18, and its decoding half for the payloads in P
HooksEncode ==
  /\ MarshalOfHooked("text") =>
       /\ merr = ErrNil
       /\ buf = <<tBinary8, Len(vv[1].fields[1].v.s)>> \o UpperOf(vv[1].fields[1].v.s)
  /\ MarshalOfHooked("broken") => merr = ErrMarshalHook /\ (pc = "done" => data = <<>>)
HooksDecode ==
  /\ UnmarshalIntoHooked("text") =>
       /\ derr = ErrNil
       /\ dst[1].p[1].fields[1].v = StringV(LowerOf(Payload))
  /\ UnmarshalIntoHooked("broken") => derr = ErrUnmarshalHook

\* C18: a record with a to-bytes hook is encoded as one Bytes record whose
\* payload is what the hook returns; a Bytes record decoded into a record with
\* a from-bytes hook hands the payload to the hook; the error of a hook that
\* fails is what Marshal or Unmarshal returns.
C18_Stated == HooksEncode /\ HooksDecode

\* the same, but for the Bytes record of an empty payload that ends the
\* stream: Unmarshal returns io.EOF and the hook is not called
C18_ExceptEmptyLast ==
  /\ HooksEncode
  /\ IF Payload = <<>>
     THEN \A h \in {"text", "broken"} :
            UnmarshalIntoHooked(h) => derr = ErrEOF /\ dst = dst0
     ELSE HooksDecode

\* the record with x = "a1" was encoded as the Bytes record of A1 and decoded
\* into a record with the hooks: its x is "a1"
C18_RoundTrip ==
  /\ MarshalOfHooked("text") /\ vv[1].fields[1].v.s = <<97, 49>>
  /\ UnmarshalIntoHooked("text") /\ data = <<tBinary8, 2, 65, 49>>
  /\ derr = ErrNil /\ dst[1].p[1].fields[1].v = StringV(<<97, 49>>)
\* the from-bytes hook that fails was called: Unmarshal returned its error
C18_HookFailed ==
  UnmarshalIntoHooked("broken") /\ Payload # <<>> /\ derr = ErrUnmarshalHook


\* ------------------------------------------------------------------------
\* the number of destinations and the number of records (SpecCross)
\* ------------------------------------------------------------------------

\* Unmarshal has returned for the bytes Marshal made of the values vv, one
\* record each
Unmarshalled == pc = "done" /\ merr = ErrNil

\* C19: Unmarshal given a number of destinations that differs from the number
\* of records of the stream, more or fewer, returns an error.
C19_Stated == Unmarshalled /\ Len(dst) # Len(vv) => derr # ErrNil

\* with more destinations than records Unmarshal returns an error, io.EOF at
\* the first destination without a record when the records before it decoded
C19_MoreDestinations ==
  Unmarshalled /\ Len(dst) > Len(vv) =>
    /\ derr # ErrNil /\ di <= Len(vv) + 1
    /\ di = Len(vv) + 1 => derr = ErrEOF /\ dst[di] = dst0[di]
\* with fewer destinations than records, each of the type of its record,
\* Unmarshal returns no error and leaves the records after them unread
C19_FewerDestinations ==
  /\ Unmarshalled /\ Len(dst) < Len(vv)
  /\ \A j \in 1..Len(dst) : dst0[j].elem = TypeOf(vv[j])
  => derr = ErrNil /\ di = Len(dst) /\ pos < Len(data)

\* two records were decoded into one destination without an error
C19_Unread ==
  Unmarshalled /\ Len(vv) = 2 /\ Len(dst) = 1 /\ derr = ErrNil /\ pos < Len(data)
\* one record was decoded into two destinations: io.EOF at the second
C19_Missing ==
  Unmarshalled /\ Len(vv) = 1 /\ Len(dst) = 2 /\ di = 2 /\ derr = ErrEOF


\* ------------------------------------------------------------------------
\* the first record that fails ends the batch (SpecCross)
\* ------------------------------------------------------------------------

\* a step of the batch writes at most the destination whose turn it is
OneDestinationAtATime ==
  \A j \in 1..Len(dst) : j # di + 1 => dst'[j] = dst[j]
\* once a record has failed, its error stays the error of the batch, no
\* destination is written, no byte is read and no record is started
NothingAfterFailure ==
  derr # ErrNil => derr' = derr /\ dst' = dst /\ pos' = pos /\ di' = di
\* the destinations whose turn has not come hold what the caller put there
LaterUntouched == \A j \in 1..Len(dst) : j > di => dst[j] = dst0[j]

\* C20: the batch stops at the first record that fails: the error of that
\* record is the one returned, the destinations before it keep what was
\* decoded into them, the destinations after it are never written, and no
\* byte is read for them.
C20_StopsAtFirstFailure ==
  [](LaterUntouched) /\ [][OneDestinationAtATime /\ NothingAfterFailure]_vars

\* the first of two records failed: Unmarshal returned its error, the second
\* destination holds what it held and the bytes of the second record are
\* unread
C20_Witness ==
  /\ pc = "done" /\ merr = ErrNil /\ Len(vv) = 2 /\ Len(dst) = 2
  /\ di = 1 /\ derr = ErrDecoderType
  /\ dst[2] = dst0[2] /\ pos < Len(data)


\* ------------------------------------------------------------------------
\* Marshal, then Unmarshal of a strict prefix of the bytes (SpecCut)
\* ------------------------------------------------------------------------

\* the source is cut short: Unmarshal is given a strict prefix of the bytes
\* Marshal returned
Truncate ==
  /\ pc = "decode" /\ di = 0 /\ data = buf
  /\ \E n \in 0..(Len(buf) - 1) : data' = SubSeq(buf, 1, n)
  /\ UNCHANGED <<vv, buf, ei, merr, dst, dst0, di, pos, derr, pc, impl, call>>

\* values without a text or a byte payload, and values that end in one
CutPlain ==
  {BoolV(TRUE), BoolV(FALSE), Int200, Int300, PtrV(TA, <<>>),
   FloatV(64, MkFloat(0, 1023, Fill(52, 0))), FloatV(64, MkFloat(0, 0, Fill(52, 0)))}
  \cup IntVals(32) \cup UintVals(64)
  \cup Samples(SliceT(BoolT)) \cup Samples(SliceT(IntT(16))) \cup Samples(MapT(UintT(8), BoolT))
  \cup Samples(TA)
CutTexts ==
  {StringV(s) : s \in SeqsUpTo({97, 98}, 3)} \cup {StringV(Fill(n, 65)) : n \in LongLens}
  \cup {BytesValue(s) : s \in SeqsUpTo({0, 7}, 3)} \cup {BytesValue(Fill(n, 66)) : n \in LongLens}
CutNested ==
  {SliceV(StringT, <<StringV(<<97>>), StringV(<<97, 98>>)>>),
   MapV(UintT(8), StringT, {<<UintV(8, NatBits(1, 64)), StringV(<<97, 98, 97>>)>>})}

InitCut ==
  /\ vv \in {<<v>> : v \in CutPlain \cup CutTexts \cup CutNested}
  /\ \E dirty \in BOOLEAN : dst = Dests(vv, dirty)
  /\ dst0 = dst
  /\ impl \in {"amd64"}
  /\ buf = <<>> /\ ei = 0 /\ merr = ErrNil
  /\ data = <<>> /\ di = 0 /\ pos = 0 /\ derr = ErrNil
  /\ pc = "encode"
  /\ call = NoCall

NextCut == Encode \/ MarshalReturn \/ Truncate \/ Decode \/ UnmarshalReturn

SpecCut == InitCut /\ [][NextCut]_vars

\* Unmarshal has returned for a strict prefix of the record of vv[1]
CutDecoded == pc = "done" /\ merr = ErrNil /\ Len(data) < Len(buf)
\* the bytes of a text or of a []byte
PayloadOf(v) == IF v.k = "string" THEN v.s ELSE SliceBytes(v)
\* the value of the kind of v with the payload bs
WithPayload(v, bs) == IF v.k = "string" THEN StringV(bs) ELSE BytesValue(bs)
\* the bytes of the payload that the prefix holds
PayloadKept(v) == Len(data) - (Len(buf) - Len(PayloadOf(v)))

\* C21: for every record of the encoder and every strict prefix of its bytes,
\* decoding the prefix into a destination of the type of the value returns an
\* error.
C21_Stated == CutDecoded => derr # ErrNil

\* what the decoder does: a prefix that ends before the payload of a text or
\* a []byte, or inside a value that holds none, is an error; a prefix that
\* holds at least one byte of the payload decodes without an error into the
\* payload filled up with zero bytes
C21_ShortRead ==
  CutDecoded =>
    /\ vv[1] \in CutPlain => derr \in {ErrEOF, ErrUnexpectedEOF}
    /\ vv[1] \in CutTexts =>
         IF PayloadKept(vv[1]) >= 1
         THEN /\ derr = ErrNil
              /\ dst[1].p[1] =
                   WithPayload(vv[1], SubSeq(PayloadOf(vv[1]), 1, PayloadKept(vv[1]))
                                        \o Fill(Len(PayloadOf(vv[1])) - PayloadKept(vv[1]), 0))
         ELSE derr \in {ErrEOF, ErrUnexpectedEOF}

\* the record 53 02 61 62 of the text ab was cut after 61: Unmarshal returned
\* no error and the text a, 0
C21_Padded ==
  /\ CutDecoded /\ vv[1] = StringV(<<97, 98>>) /\ data = <<tString8, 2, 97>>
  /\ derr = ErrNil /\ dst[1].p[1] = StringV(<<97, 0>>)
\* a record of a sequence was cut inside an element: an error
C21_CutElement ==
  /\ CutDecoded /\ vv[1].k = "slice" /\ vv[1].elem = IntT(16) /\ Len(data) >= 3
  /\ derr \in {ErrEOF, ErrUnexpectedEOF}


\* ------------------------------------------------------------------------
\* Unmarshal into destinations that are no pointer or a nil pointer
\* (SpecUsage)
\* ------------------------------------------------------------------------

\* destinations that are no pointer, typed nil pointers, the untyped nil, and
\* pointers to a bool
NonPointers ==
  {BoolV(TRUE), Int300, StringV(<<97>>), SliceV(BoolT, <<BoolV(TRUE)>>), Dirty(TA),
   Dirty(TM), IfaceV(0, <<BoolV(TRUE)>>), ChanV}
NilPointers == {PtrV(t, <<>>) : t \in {BoolT, IntT(64), StringT, TA, PtrT(BoolT)}}
UsageDests == NonPointers \cup NilPointers \cup {Invalid} \cup Pointers({BoolT})

InitUsage ==
  /\ vv = <<>>
  /\ data \in {<<>>, <<tTrue>>, <<tTrue, tFalse>>, <<tInt8, 7>>}
  /\ dst \in SeqsUpTo(UsageDests, MaxRecords) \ {<<>>}
  /\ dst0 = dst
  /\ impl \in {"amd64"}
  /\ buf = <<>> /\ ei = 0 /\ merr = ErrNil
  /\ di = 0 /\ pos = 0 /\ derr = ErrNil
  /\ pc = "decode"
  /\ call = NoCall

SpecUsage == InitUsage /\ [][NextWire]_vars

\* the step is the decoding of the next destination, which is d
DecodingOf(D) == pc = "decode" /\ di < Len(dst) /\ di' = di + 1 /\ dst[di + 1] \in D
\* the step fails with the error e, reads no byte and writes no destination
Refused(e) == derr' = e /\ pos' = pos /\ dst' = dst

\* C22: decoding into a destination that is no pointer, or that is a nil or
\* an absent pointer, fails with a DecoderError before a byte is read.
C22_Stated ==
  [][DecodingOf(NonPointers \cup NilPointers \cup {Invalid}) => Refused(ErrDecoder)]_vars

\* what the decoder does: a DecoderError for a value that is no pointer and
\* for a typed nil pointer, before a byte is read; a panic for the untyped nil
C22_TypedUsage ==
  [][/\ DecodingOf(NonPointers \cup NilPointers) => Refused(ErrDecoder)
     /\ DecodingOf({Invalid}) => Refused(ErrPanic)]_vars

\* a nil *int64 after a bool was decoded: a DecoderError and no byte read
C22_NilPointer ==
  /\ pc = "done" /\ Len(dst) = 2 /\ di = 2 /\ dst0[2] = PtrV(IntT(64), <<>>)
  /\ data = <<tTrue, tFalse>> /\ pos = 1 /\ derr = ErrDecoder /\ dst[2] = dst0[2]
\* Unmarshal(data, nil) has panicked
C22_Absent == pc = "done" /\ dst0 = <<Invalid>> /\ di = 1 /\ derr = ErrPanic


\* ------------------------------------------------------------------------
\* Marshal of floats, finite or not, alone, nested and in a batch (SpecFloat)
\* ------------------------------------------------------------------------

\* NaN with a quiet and with a signalling mantissa, and the two infinities
NonFinite ==
  {MkFloat(0, 2047, <<1>> \o Fill(51, 0)), MkFloat(1, 2047, Fill(51, 0) \o <<1>>),
   MkFloat(0, 2047, Fill(52, 0)), MkFloat(1, 2047, Fill(52, 0))}
One == MkFloat(0, 1023, Fill(52, 0))
\* struct{ A bool; F float64 } and struct{ S []float64 }
TF == StructT(<<Field(<<65>>, TRUE, BoolT), Field(<<70>>, TRUE, FloatT(64))>>)
TS == StructT(<<Field(<<83>>, TRUE, SliceT(FloatT(64)))>>)
\* the float f at every place a value can hold one
Nestings(f) ==
  {FloatV(64, f), FloatV(32, f),
   SliceV(FloatT(64), <<FloatV(64, One), FloatV(64, f)>>),
   ArrayV(FloatT(32), <<FloatV(32, f), FloatV(32, One)>>),
   MapV(UintT(8), FloatT(64), {<<UintV(8, NatBits(1, 64)), FloatV(64, One)>>,
                               <<UintV(8, NatBits(2, 64)), FloatV(64, f)>>}),
   MapV(FloatT(64), BoolT, {<<FloatV(64, f), BoolV(TRUE)>>}),
   PtrV(FloatT(64), <<FloatV(64, f)>>),
   IfaceV(0, <<FloatV(64, f)>>),
   SliceV(IfaceT(0), <<IfaceV(0, <<FloatV(64, f)>>)>>)}
  \cup StructsOf(TF, {<<BoolV(TRUE), FloatV(64, f)>>, <<BoolV(FALSE), FloatV(64, f)>>})
  \cup StructsOf(TS, {<<SliceV(FloatT(64), <<FloatV(64, f)>>)>>})
FloatValues ==
  Float64Vals \cup Float32Vals \cup UNION {Nestings(f) : f \in NonFinite \cup {One}}
FloatBatches ==
  {<<v>> : v \in FloatValues}
  \cup UNION {{[i \in 1..n |-> IF i = j THEN v ELSE f] : j \in 1..n,
               v \in UNION {Nestings(g) : g \in NonFinite \cup {One}},
               f \in {BoolV(TRUE), StringV(<<97>>)}}
              : n \in 2..MaxArgs}

InitFloat ==
  /\ vv \in FloatBatches
  /\ dst = Dests(vv, FALSE)
  /\ dst0 = dst
  /\ impl \in {"amd64"}
  /\ buf = <<>> /\ ei = 0 /\ merr = ErrNil
  /\ data = <<>> /\ di = 0 /\ pos = 0 /\ derr = ErrNil
  /\ pc = "encode"
  /\ call = NoCall

SpecFloat == InitFloat /\ [][Next]_vars

\* the floats that are NaN or infinite: the exponent is all ones
NotFinite(v) == v.k = "float" /\ SubSeq(v.f, 2, 12) = Fill(11, 1)
\* v holds a NaN or an infinite float at some depth
RECURSIVE HoldsNotFinite(_)
HoldsNotFinite(v) ==
  CASE v.k = "float" -> NotFinite(v)
    [] v.k \in {"slice", "array"} -> \E i \in 1..Len(v.items) : HoldsNotFinite(v.items[i])
    [] v.k = "map" -> \E e \in v.kv : HoldsNotFinite(e[1]) \/ HoldsNotFinite(e[2])
    [] v.k = "struct" -> \E i \in 1..Len(v.fields) : HoldsNotFinite(v.fields[i].v)
    [] v.k \in {"ptr", "iface"} -> v.p # <<>> /\ HoldsNotFinite(v.p[1])
    [] OTHER -> FALSE
\* Marshal has returned
MarshalReturned == pc # "encode"

\* C23: encoding a NaN or an infinite float fails with an EncoderError at any
\* depth, and Marshal then returns no bytes with the error, also when values
\* before it were encoded; without such a float Marshal returns the bytes of
\* all the values and no error.
C23_NoPartialOutput ==
  MarshalReturned =>
    IF \E i \in 1..Len(vv) : HoldsNotFinite(vv[i])
    THEN merr = ErrEncoder /\ data = <<>> /\ pc = "done" /\ di = 0
    ELSE merr = ErrNil /\ ei = Len(vv) /\ data = buf

\* Marshal(true, []float64{1, NaN}) returned the EncoderError and no bytes,
\* after the bool and a part of the sequence were written to its buffer
C23_Witness ==
  /\ MarshalReturned /\ Len(vv) = 2 /\ vv[1] = BoolV(TRUE)
  /\ vv[2].k = "slice" /\ HoldsNotFinite(vv[2])
  /\ merr = ErrEncoder /\ data = <<>> /\ Len(buf) > 1 /\ buf[1] = tTrue


\* the exponent field and the mantissa field of a float
ExpField(f) == BitsNat(SubSeq(f, 2, 12))
ManField(f) == SubSeq(f, 13, 64)
\* the absolute value of the finite float f is at least 2^-149, the smallest
\* positive float32, and at most (2 - 2^-23) * 2^127, the largest: the
\* exponent field of 2^-149 is 874 and that of 2^127 is 1150
InFloat32Range(f) ==
  /\ ExpField(f) >= 874
  /\ \/ ExpField(f) < 1150
     \/ /\ ExpField(f) = 1150
        /\ (SubSeq(ManField(f), 1, 23) # Fill(23, 1) \/ SubSeq(ManField(f), 24, 52) = Fill(29, 0))
\* Marshal has returned for the one finite float vv[1]
MarshalOfFinite ==
  MarshalReturned /\ Len(vv) = 1 /\ vv[1].k = "float" /\ ~NotFinite(vv[1])

\* C24: a finite float is written with the 4-byte tier exactly when its
\* absolute value is in the closed range from the smallest positive float32
\* to the largest float32, and with the 8-byte tier otherwise; 0.0 and -0.0
\* are written with the tag 0x92 of the 8-byte tier.
C24_FloatTier ==
  MarshalOfFinite =>
    /\ merr = ErrNil
    /\ IF InFloat32Range(vv[1].f)
       THEN buf[1] = tFloat32 /\ Len(buf) = 5
       ELSE buf[1] = tFloat64 /\ buf = <<tFloat64>> \o WordBytes(vv[1].f)
    /\ ExpField(vv[1].f) = 0 /\ ManField(vv[1].f) = Fill(52, 0) => buf[1] = 146

\* -0.0 was written as 92 80 00 00 00 00 00 00 00
C24_Witness ==
  /\ MarshalOfFinite /\ vv[1] = FloatV(64, MkFloat(1, 0, Fill(52, 0)))
  /\ buf = <<146, 128, 0, 0, 0, 0, 0, 0, 0>>
\* 2^-149 was written with the 4-byte tier and 2^-150 with the 8-byte tier
C24_AtLowerEnd ==
  /\ MarshalOfFinite /\ ManField(vv[1].f) = Fill(52, 0)
  /\ \/ ExpField(vv[1].f) = 874 /\ buf[1] = tFloat32
     \/ ExpField(vv[1].f) = 873 /\ buf[1] = tFloat64


\* ------------------------------------------------------------------------
\* a Nil record, and the destinations of type interface (SpecCross)
\* ------------------------------------------------------------------------

\* Unmarshal has returned for the one record Marshal made of vv[1] and for
\* one destination
OneDecoded == pc = "done" /\ merr = ErrNil /\ Len(vv) = 1 /\ Len(dst) = 1 /\ di = 1
\* the kinds of destination a Nil record resets
Clearable == {"ptr", "map", "slice", "iface"}

\* C25: decoding a Nil record returns no error for a destination of every
\* shape; a pointer, a map, a slice or an interface is reset to its nil
\* value, and every other destination keeps its value.
C25_Nil ==
  OneDecoded /\ data = <<tNil>> =>
    /\ derr = ErrNil /\ pos = 1
    /\ IF dst0[1].elem.k \in Clearable
       THEN dst[1].p[1] = Zero(dst0[1].elem)
       ELSE dst[1] = dst0[1]

\* a Nil record was decoded into a map in use, which is empty now
C25_Witness ==
  /\ OneDecoded /\ data = <<tNil>> /\ derr = ErrNil
  /\ dst0[1].elem = TM /\ dst0[1].p[1].kv # {} /\ dst[1].p[1].kv = {}
\* a Nil record was decoded into a record in use, which is as it was
C25_Kept ==
  /\ OneDecoded /\ data = <<tNil>> /\ derr = ErrNil
  /\ dst0[1].elem = TA /\ dst0[1].p[1] # Zero(TA) /\ dst[1] = dst0[1]


\* ------------------------------------------------------------------------
\* a Sequence decoded into arrays and slices of every length (SpecSeq)
\* ------------------------------------------------------------------------

\* the most elements of a sequence and of its destination
MaxCount == 3
MaxCap == 4
SeqValues ==
  {SliceV(BoolT, s) : s \in SeqsUpTo({BoolV(TRUE), BoolV(FALSE)}, MaxCount)}
  \cup {ArrayV(IntT(16), <<IntV(16, IntWord(1)), IntV(16, IntWord(-300))>>),
        SliceV(IntT(16), <<IntV(16, IntWord(-1)), IntV(16, IntWord(300)), IntV(16, IntWord(0))>>),
        SliceV(SliceT(BoolT), <<SliceV(BoolT, <<BoolV(TRUE)>>), SliceV(BoolT, <<>>)>>),
        SliceV(PtrT(IntT(64)), <<PtrV(IntT(64), <<>>), PtrV(IntT(64), <<IntV(64, IntWord(5))>>)>>)}
\* arrays and slices of c elements of type e, all zero or all in use
SeqDests(e) ==
  UNION {{ArrayV(e, [i \in 1..c |-> Zero(e)]), ArrayV(e, [i \in 1..c |-> Dirty(e)]),
          SliceV(e, [i \in 1..c |-> Dirty(e)])} : c \in 0..MaxCap}

InitSeq ==
  /\ vv \in {<<v>> : v \in SeqValues}
  /\ dst \in {<<PtrV(TypeOf(d), <<d>>)>> : d \in SeqDests(vv[1].elem)}
  /\ dst0 = dst
  /\ impl \in {"amd64"}
  /\ buf = <<>> /\ ei = 0 /\ merr = ErrNil
  /\ data = <<>> /\ di = 0 /\ pos = 0 /\ derr = ErrNil
  /\ pc = "encode"
  /\ call = NoCall

SpecSeq == InitSeq /\ [][Next]_vars

\* the count of the Sequence record, and the capacity c of the destination
Count == Len(vv[1].items)
Capacity == Len(dst0[1].p[1].items)

\* C26: a Sequence of count n decoded into an array of capacity c fails with
\* a decode type error when n > c, before an element is read; when n <= c the
\* first n slots hold the elements in order and the slots after them hold
\* the zero value.  Decoded into a slice, it leaves the slice with length n
\* and the n elements in order, whatever its length was.
C26_Sequence ==
  OneDecoded =>
    IF dst0[1].elem.k = "array"
    THEN IF Count > Capacity
         THEN derr = ErrDecoderType /\ dst = dst0 /\ pos = 2
         ELSE /\ derr = ErrNil /\ pos = Len(data)
              /\ dst[1].p[1].items =
                   [i \in 1..Capacity |->
                      IF i <= Count THEN vv[1].items[i] ELSE Zero(dst0[1].elem.elem)]
    ELSE /\ derr = ErrNil /\ pos = Len(data)
         /\ dst[1].p[1].items = vv[1].items

\* two elements were decoded into an array of four in use: the last two
\* slots are zero
C26_Witness ==
  /\ OneDecoded /\ dst0[1].elem.k = "array" /\ Count = 2 /\ Capacity = 4
  /\ dst0[1].p[1].items[4] # Zero(dst0[1].elem.elem)
  /\ derr = ErrNil
  /\ dst[1].p[1].items[2] = vv[1].items[2]
  /\ dst[1].p[1].items[4] = Zero(dst0[1].elem.elem)
\* three elements into an array of two: a type error; one element into a
\* slice of four: a slice of one
C26_TooLarge ==
  OneDecoded /\ dst0[1].elem.k = "array" /\ Count = 3 /\ Capacity = 2 /\ derr = ErrDecoderType
C26_Shrunk ==
  /\ OneDecoded /\ dst0[1].elem.k = "slice" /\ Count = 1 /\ Capacity = 4
  /\ derr = ErrNil /\ Len(dst[1].p[1].items) = 1


\* Unmarshal has returned for one record of a wire kind and one destination,
\* an interface with a method
IntoConstrained ==
  /\ OneDecoded /\ Len(data) >= 1 /\ (\E i \in 1..Len(TagList) : TagList[i] = data[1])
  /\ dst0[1].elem = IfaceT(1)

\* C27 as stated: decoding into an interface that has methods is rejected
\* with a decode type error for every wire kind, Nil among them.
C27_Stated == IntoConstrained => derr = ErrDecoderType

\* C27: decoding into an interface that has methods is rejected with a
\* decode type error, and the interface keeps its value, for every wire kind
\* but Nil; a Nil record sets the interface to nil and is no error.
C27_ConstrainedInterface ==
  IntoConstrained =>
    IF data[1] = tNil
    THEN derr = ErrNil /\ dst[1].p[1] = IfaceV(1, <<>>)
    ELSE derr = ErrDecoderType /\ dst = dst0

\* a Mapping was decoded into an interface with a method that held a value:
\* a type error, and the interface holds the value
C27_Witness ==
  /\ IntoConstrained /\ data[1] = tObject8 /\ dst0[1].p[1].p # <<>>
  /\ derr = ErrDecoderType /\ dst = dst0
\* a Nil record was decoded into it: no error, and the interface is nil
C27_NilAccepted ==
  /\ IntoConstrained /\ data = <<tNil>> /\ dst0[1].p[1].p # <<>>
  /\ derr = ErrNil /\ dst[1].p[1].p = <<>>



\* the value an interface{} holds after the record of v was decoded into it,
\* for the values that are no record and hold none: <<>> for nil
RECURSIVE Natural(_)
Boxed(v) == IfaceV(0, Natural(v))
Natural(v) ==
  CASE v.k = "int" -> <<IntV(64, v.n)>>
    [] v.k = "uint" -> <<UintV(64, v.n)>>
    [] v.k = "float" -> <<FloatV(64, v.f)>>
    [] v.k \in {"bool", "string"} -> <<v>>
    [] v.k = "slice" /\ v.elem = UintT(8) -> <<v>>
    [] v.k \in {"slice", "array"} ->
         <<SliceV(IfaceT(0), [i \in 1..Len(v.items) |-> Boxed(v.items[i])])>>
    [] v.k = "map" ->
         <<MapV(IfaceT(0), IfaceT(0), {<<Boxed(e[1]), Boxed(e[2])>> : e \in v.kv})>>
    [] v.k \in {"ptr", "iface"} -> IF v.p = <<>> THEN <<>> ELSE Natural(v.p[1])
\* the values Natural is defined for
RECURSIVE Unstructured(_)
Unstructured(v) ==
  CASE v.k \in {"struct", "chan"} -> FALSE
    [] v.k \in {"slice", "array"} -> \A i \in 1..Len(v.items) : Unstructured(v.items[i])
    [] v.k = "map" -> \A e \in v.kv : Unstructured(e[1]) /\ Unstructured(e[2])
    [] v.k \in {"ptr", "iface"} -> v.p = <<>> \/ Unstructured(v.p[1])
    [] OTHER -> TRUE
\* Unmarshal has returned for the record of vv[1] and one interface{}
IntoAny == OneDecoded /\ dst0[1].elem = IfaceT(0) /\ Unstructured(vv[1])
\* the record of v ends with a text or with a []byte of no bytes
RECURSIVE EndsEmpty(_)
EndsEmpty(v) ==
  CASE v.k = "string" -> v.s = <<>>
    [] v.k = "slice" /\ v.elem = UintT(8) -> v.items = <<>>
    [] v.k \in {"slice", "array"} -> v.items # <<>> /\ EndsEmpty(v.items[Len(v.items)])
    [] v.k \in {"ptr", "iface"} -> v.p # <<>> /\ EndsEmpty(v.p[1])
    [] OTHER -> FALSE
\* v is a map with a key that is a sequence, a mapping or a []byte on the wire
CompositeKey(v) ==
  v.k = "map" /\ \E e \in v.kv : e[1].k \in {"slice", "array", "map", "struct"}

\* C28: decoding into an interface{} stores the wire value in its natural
\* representation: int64, uint64, float64, bool, text, []byte, a list of
\* interface{} for a Sequence, a map from interface{} to interface{} for a
\* Mapping, and nil for Nil.
C28_Stated == IntoAny => derr = ErrNil /\ dst[1].p[1] = Boxed(vv[1])

\* what the decoder does: the same, but for a record that ends with an empty
\* text or []byte, which fails with io.EOF, and for a Mapping with a key that
\* is a Sequence, which panics
C28_Natural ==
  IntoAny =>
    CASE CompositeKey(vv[1]) -> derr = ErrPanic
      [] EndsEmpty(vv[1]) -> derr = ErrEOF
      [] OTHER -> derr = ErrNil /\ dst[1].p[1] = Boxed(vv[1])

\* map[[1]bool]bool{{true}: true} was decoded into an interface{}: a panic
C28_Panic ==
  /\ IntoAny /\ CompositeKey(vv[1]) /\ data = <<tObject8, 1, tArray8, 1, tTrue, tTrue>>
  /\ derr = ErrPanic
\* an int32 of -70000 was decoded into an interface{} in use: it holds the
\* int64 -70000
C28_Int64 ==
  /\ IntoAny /\ vv[1] = IntV(32, IntWord(-70000)) /\ dst0[1].p[1].p # <<>>
  /\ derr = ErrNil /\ dst[1].p[1] = IfaceV(0, <<IntV(64, IntWord(-70000))>>)


\* ------------------------------------------------------------------------
\* the bytes of a value encoded a second time (Spec)
\* ------------------------------------------------------------------------

\* v holds, at some depth, a record without hooks that has two or more
\* fields that are not empty
RECURSIVE HoldsWideRecord(_)
HoldsWideRecord(v) ==
  CASE v.k = "struct" ->
         v.hooks = "none"
         /\ (Cardinality(NonEmptyFields(v)) >= 2
             \/ \E j \in 1..Len(v.fields) : HoldsWideRecord(v.fields[j].v))
    [] v.k \in {"slice", "array"} -> \E i \in 1..Len(v.items) : HoldsWideRecord(v.items[i])
    [] v.k = "map" -> \E e \in v.kv : HoldsWideRecord(e[1]) \/ HoldsWideRecord(e[2])
    [] v.k \in {"ptr", "iface"} -> v.p # <<>> /\ HoldsWideRecord(v.p[1])
    [] OTHER -> FALSE
\* v holds, at some depth, a map of two or more entries
RECURSIVE HoldsWideMap(_)
HoldsWideMap(v) ==
  CASE v.k = "map" ->
         Cardinality(v.kv) >= 2 \/ \E e \in v.kv : HoldsWideMap(e[1]) \/ HoldsWideMap(e[2])
    [] v.k = "struct" -> \E j \in 1..Len(v.fields) : HoldsWideMap(v.fields[j].v)
    [] v.k \in {"slice", "array"} -> \E i \in 1..Len(v.items) : HoldsWideMap(v.items[i])
    [] v.k \in {"ptr", "iface"} -> v.p # <<>> /\ HoldsWideMap(v.p[1])
    [] OTHER -> FALSE
\* Marshal has returned the bytes of the one value vv[1]
OneEncoded == MarshalReturned /\ Len(vv) = 1 /\ merr = ErrNil
\* every encoding of vv[1] is the one Marshal returned
SameBytesAgain == \A r \in EncodeValue(vv[1], FALSE) : r.err = ErrNil /\ r.out = buf

\* C29: encoding the same value twice yields the same bytes for every value
\* that holds no record with two or more fields that are not empty; a map of
\* two or more entries too is always written as the same bytes.
C29_Stated == OneEncoded /\ ~HoldsWideRecord(vv[1]) => SameBytesAgain

\* what the encoder does: the same bytes for every value that holds neither
\* such a record nor a map of two or more entries
C29_NarrowValues ==
  OneEncoded /\ ~HoldsWideRecord(vv[1]) /\ ~HoldsWideMap(vv[1]) => SameBytesAgain

\* a map of two entries was written, and another encoding of it differs
C29_MapOrder ==
  /\ OneEncoded /\ vv[1].k = "map" /\ Cardinality(vv[1].kv) = 2
  /\ \E r \in EncodeValue(vv[1], FALSE) : r.out # buf /\ Len(r.out) = Len(buf)


\* ------------------------------------------------------------------------
\* the destination of a decode that failed (SpecCross)
\* ------------------------------------------------------------------------

\* the kinds of the scalars
Scalars == {"bool", "int", "uint", "float", "string"}
\* p points at a scalar or at a struct: the destination is not reached through
\* a nil pointer
Direct(p) == p.k = "ptr" /\ p.p # <<>> /\ p.p[1].k \in Scalars \cup {"struct"}
\* the decode of record i has returned an error
FailedAt(i) == merr = ErrNil /\ di = i /\ derr # ErrNil

\* C30: a decode that fails leaves a scalar or struct destination that the
\* caller points at as it was before the call: a number or a parsed text that
\* overflows or is of the wrong kind is refused before the store, and a
\* Mapping is decoded into a new struct that is assigned only after its last
\* pair, so an error at any pair changes no field of the destination.
C30_FailedDecodeKeeps ==
  \A i \in 1..Len(dst) : FailedAt(i) /\ Direct(dst0[i]) => dst[i] = dst0[i]

\* a Mapping of two pairs failed at its second pair, after its first pair was
\* decoded into a field, and the struct in use is as it was
C30_Witness ==
  /\ pc = "done" /\ FailedAt(1) /\ derr = ErrDecoderType
  /\ vv[1].k = "map" /\ Cardinality(vv[1].kv) = 2
  /\ dst0[1] = PtrV(TA, <<Dirty(TA)>>) /\ dst[1] = dst0[1]
  /\ pos >= 8
\* a number that overflows an int8 in use was refused, and the int8 is as it was
C30_Overflow ==
  /\ pc = "done" /\ FailedAt(1) /\ derr = ErrDecoderType
  /\ vv[1] = Int300
  /\ dst0[1] = PtrV(IntT(8), <<Dirty(IntT(8))>>) /\ dst[1] = dst0[1]
\* a text that is no number was refused by an integer in use
C30_ParsedText ==
  /\ pc = "done" /\ FailedAt(1) /\ derr = ErrDecoderType
  /\ vv[1].k = "string" /\ vv[1].s \in BadIntTexts
  /\ dst0[1] = PtrV(IntT(16), <<Dirty(IntT(16))>>) /\ dst[1] = dst0[1]

====
